---- MODULE Spec2Model ----
(***************************************************************************)
(* Migration planner (Migrator), registry fetcher (createFetcher) and      *)
(* their helpers of packages/nx/src/command-line/migrate.ts.               *)
(*                                                                         *)
(* Spec          the planner: one Migrator instance running migrate() with *)
(*               a memoizing fetch whose requests complete in any order,   *)
(*               and the generate command around it.                       *)
(* FetchSpec     the fetcher returned by createFetcher(): its two caches   *)
(*               and the promise chain of fetchMigrations.                 *)
(* FilterSpec    filterPackageJsonUpdates applied to one update.           *)
(* GenerateSpec  what the generate command writes after migrate().         *)
(* RunSpec       runMigrations() and executeMigrations().                  *)
(* ParseSpec     parseTargetPackageAndVersion.                             *)
(* ResolveSpec   the installed-version resolver and its cache.             *)
(* ItemSpec      the planner on further documents: updates that depend on  *)
(*               each other within one deferred item, children that return *)
(*               deferred items, package groups under --from, and package  *)
(*               groups that name their own package and each other.        *)
(* ItemLiveSpec  ItemSpec under fair scheduling.                           *)
(* FetchLiveSpec FetchSpec with every request answered.                    *)
(***************************************************************************)
EXTENDS Integers, Sequences, FiniteSets, TLC

(***************************************************************************)
(* Bounds of the model.                                                    *)
(***************************************************************************)
\* highest major version published in the modelled registry
MaxTarget == 3
\* number of migrate() runs in one behaviour (a rerun follows the first)
MaxRuns == 2
\* number of fetch calls issued against one fetcher in FetchSpec
MaxCalls == 3
\* length of the longest migrations.json handed to the runner in RunSpec
MaxMigrations == 3
\* number of calls made to one installed-version resolver in ResolveSpec
MaxLookups == 2

(***************************************************************************)
(* Version strings.  A version string is kept as the fields its parsing    *)
(* yields: tag "" for a dotted version (min / pat = -1 when the component  *)
(* is missing, pre = 0 without prerelease, pre = k + 1 for "-beta.k"), or  *)
(* the tag itself for "latest", "next", "*"; tag "none" is null/undefined. *)
(***************************************************************************)
Ver(M, m, p, e) == [tag |-> "", maj |-> M, min |-> m, pat |-> p, pre |-> e]
Tag(t) == [tag |-> t, maj |-> 0, min |-> 0, pat |-> 0, pre |-> 0]
Full(M) == Ver(M, 0, 0, 0)
Partial(M) == Ver(M, -1, -1, 0)
NoVersion == Tag("none")
ZeroVersion == Ver(0, 0, 0, 0)

\* truthiness of a version string
Truthy(v) == v.tag # "none"

\* semver accepts the string as a version
Valid(v) == v.tag = "" /\ v.min >= 0 /\ v.pat >= 0

\* semver compare of two valid versions: -1, 0, 1
SemverCompare(a, b) ==
    IF a.maj # b.maj THEN (IF a.maj > b.maj THEN 1 ELSE -1)
    ELSE IF a.min # b.min THEN (IF a.min > b.min THEN 1 ELSE -1)
    ELSE IF a.pat # b.pat THEN (IF a.pat > b.pat THEN 1 ELSE -1)
    ELSE IF a.pre = b.pre THEN 0
    ELSE IF a.pre = 0 THEN 1
    ELSE IF b.pre = 0 THEN -1
    ELSE IF a.pre > b.pre THEN 1 ELSE -1

\* semver gt / gte / lt / lte; they throw on an invalid version, which the
\* callers below never pass unguarded
SemverGt(a, b) == SemverCompare(a, b) = 1
SemverGte(a, b) == SemverCompare(a, b) >= 0
SemverLt(a, b) == SemverCompare(a, b) = -1
SemverLte(a, b) == SemverCompare(a, b) <= 0

\* the first variation that semver accepts and finds > 0.0.0, else 0.0.0
RECURSIVE FirstVariation(_, _)
FirstVariation(variationsToCheck, i) ==
    IF i > Len(variationsToCheck) THEN ZeroVersion
    ELSE IF Valid(variationsToCheck[i]) /\ SemverGt(variationsToCheck[i], ZeroVersion)
         THEN variationsToCheck[i]
         ELSE FirstVariation(variationsToCheck, i + 1)

OrZero(c) == IF c < 0 THEN 0 ELSE c

normalizeVersion(version) ==
    IF version.tag # ""
    THEN \* "latest.0.0" and the like: every gt throws
         ZeroVersion
    ELSE LET major == version.maj
             minor == OrZero(version.min)
             patch == OrZero(version.pat)
             newSemver == Ver(major, minor, patch, 0)
             newVersion == Ver(major, minor, patch, version.pre)
             withoutPatch == Ver(major, minor, 0, 0)
             withoutPatchAndMinor == Ver(major, 0, 0, 0)
         IN FirstVariation(<<newVersion, newSemver, withoutPatch, withoutPatchAndMinor>>, 1)

normalizeVersionWithTagCheck(version) ==
    IF version = Tag("latest") \/ version = Tag("next") THEN version
    ELSE normalizeVersion(version)

\* clean(version) ?? coerce(version)
cleanSemver(version) ==
    IF Valid(version) THEN version
    ELSE IF version.tag = "" THEN Ver(version.maj, OrZero(version.min), OrZero(version.pat), 0)
    ELSE NoVersion

\* A range is [op, v] with op ">=" or "<"; includePrerelease is always set,
\* so a prerelease is compared like any version.  An invalid version
\* satisfies nothing.
Range(op, v) == [op |-> op, v |-> v]
satisfies(version, range) ==
    /\ Valid(version)
    /\ IF range.op = ">=" THEN SemverGte(version, range.v) ELSE SemverLt(version, range.v)

\* Migrator.gt / Migrator.lte: both sides go through normalizeVersion
gt(v1, v2) == SemverGt(normalizeVersion(v1), normalizeVersion(v2))
lte(v1, v2) == SemverLte(normalizeVersion(v1), normalizeVersion(v2))

(***************************************************************************)
(* Insertion-ordered string-keyed objects (Record<string, T>): a sequence  *)
(* of records with a name field, one per key, in key order.                *)
(***************************************************************************)
Keys(m) == [i \in 1..Len(m) |-> m[i].name]
Has(m, n) == \E i \in 1..Len(m) : m[i].name = n
Get(m, n) == m[CHOOSE i \in 1..Len(m) : m[i].name = n]
\* m[n] = rec: an existing key keeps its place, a new key goes last
Put(m, rec) ==
    IF Has(m, rec.name)
    THEN [i \in 1..Len(m) |-> IF m[i].name = rec.name THEN rec ELSE m[i]]
    ELSE Append(m, rec)
\* {...m, ...c}
RECURSIVE Spread(_, _)
Spread(m, c) == IF c = <<>> THEN m ELSE Spread(Put(m, Head(c)), Tail(c))
\* first index of x in seq, counted from 0; -1 when absent (Array.indexOf)
indexOf(seq, x) ==
    IF \E i \in 1..Len(seq) : seq[i] = x
    THEN (CHOOSE i \in 1..Len(seq) : seq[i] = x /\ \A j \in 1..(i - 1) : seq[j] # x) - 1
    ELSE -1
RECURSIVE Flat(_)
Flat(ss) == IF ss = <<>> THEN <<>> ELSE Head(ss) \o Flat(Tail(ss))
RECURSIVE SelectSeqIdx(_, _, _)
\* the elements s[i] with i in keep, in order
SelectSeqIdx(s, keep, i) ==
    IF i > Len(s) THEN <<>>
    ELSE (IF i \in keep THEN <<s[i]>> ELSE <<>>) \o SelectSeqIdx(s, keep, i + 1)

(***************************************************************************)
(* Migration documents (ResolvedMigrationConfiguration) and the workspace. *)
(***************************************************************************)
Pkgs == {"root", "libA", "libB"}

\* an entry of packageJsonUpdates[k].packages; addToPackageJson "false"
\* stands for false / undefined, ifPackageInstalled "" for none
Entry(n, v, always, addTo, ifInst) ==
    [name |-> n, version |-> v, alwaysAddToPackageJson |-> always,
     addToPackageJson |-> addTo, ifPackageInstalled |-> ifInst]
E(n, v) == Entry(n, v, FALSE, "false", "")
\* a PackageUpdate {version, addToPackageJson} as the planner passes it on
PackageUpdate(n, v, addTo) == Entry(n, v, FALSE, addTo, "")
\* an entry of packageJsonUpdates: requires is an ordered object name -> range
Update(v, packages, requires, prompt) ==
    [version |-> v, packages |-> packages, hasPackages |-> TRUE,
     requires |-> requires, prompt |-> prompt]
Req(n, op, v) == [name |-> n, range |-> Range(op, v)]
\* an entry of generators
Gen(n, v, requires) == [name |-> n, version |-> v, requires |-> requires]
GroupItem(p, v) == [package |-> p, version |-> v]
Doc(group, updates, gens) ==
    [packageGroup |-> group, packageJsonUpdates |-> updates, generators |-> gens]

\* the documents each package may publish
RootDocs == {
    Doc(<<GroupItem("libA", Tag("*")), GroupItem("libB", Tag("*"))>>, <<>>,
        <<Gen("r1", Full(2), <<>>), Gen("r2", Full(3), <<>>)>>),
    Doc(<<>>,
        <<Update(Full(2), <<E("libA", Full(2)), E("libB", Full(1))>>, <<>>, TRUE)>>,
        <<Gen("r1", Full(2), <<Req("libB", ">=", Full(2))>>)>>),
    Doc(<<GroupItem("libB", Tag("*")), GroupItem("libA", Tag("*"))>>,
        <<Update(Partial(2),
                 <<Entry("libB", Full(3), FALSE, "devDependencies", "")>>,
                 <<Req("libA", ">=", Full(2))>>, FALSE)>>,
        <<Gen("r1", Partial(2), <<>>)>>) }
LibADocs == {
    Doc(<<>>, <<>>, <<Gen("m1", Full(2), <<>>)>>),
    Doc(<<>>, <<Update(Full(2), <<E("libB", Full(2))>>, <<>>, FALSE)>>,
        <<Gen("m1", Full(2), <<>>), Gen("a2", Full(2), <<Req("libB", ">=", Full(2))>>)>>),
    Doc(<<>>, <<Update(Full(2), <<E("root", Full(3))>>, <<>>, FALSE)>>, <<>>) }
LibBDocs == {
    Doc(<<>>, <<>>,
        <<Gen("m1", Full(2), <<>>), Gen("b2", Full(3), <<Req("libA", "<", Full(2))>>)>>),
    Doc(<<>>, <<Update(Full(2), <<E("libA", Full(3))>>, <<>>, FALSE)>>,
        <<Gen("m1", Ver(2, 0, 0, 1), <<>>)>>) }

Absent == [p \in Pkgs |-> NoVersion]
\* name -> version for the packages named in vs, absent for the others
Versions(vs) == [p \in Pkgs |-> IF p \in DOMAIN vs THEN vs[p] ELSE NoVersion]
\* a workspace: what module resolution finds, and the manifest
Workspace(inst, deps, devDeps) ==
    [installed |-> Versions(inst),
     packageJson |-> [dependencies |-> Versions(deps), devDependencies |-> Versions(devDeps)]]
Workspaces == {
    Workspace([root |-> Full(1), libA |-> Full(1), libB |-> Full(1)],
              [libA |-> Full(1), libB |-> Full(1)], [root |-> Full(1)]),
    Workspace([root |-> Full(1), libA |-> Full(1)],
              [libA |-> Full(1), libB |-> Full(1)], [root |-> Full(1)]),
    Workspace([root |-> Full(1), libB |-> Full(1)],
              [libB |-> Full(1)], [root |-> Full(1)]),
    Workspace([root |-> Full(1), libA |-> Full(1), libB |-> Full(2)],
              [libA |-> Full(1), libB |-> Full(2)], [root |-> Full(1)]),
    Workspace([root |-> Full(3), libA |-> Full(1), libB |-> Full(1)],
              [libA |-> Full(1), libB |-> Full(1)], [root |-> Full(3)]),
    Workspace([root |-> Full(1), libA |-> Full(1), libB |-> Full(1)],
              [libA |-> Full(1)], [root |-> Full(1)]) }

\* the options of one invocation (GenerateMigrations)
Options(from, to, interactive, exclude) ==
    [from |-> Versions(from), to |-> Versions(to),
     interactive |-> interactive, excludeAppliedMigrations |-> exclude]
NoOverride == [p \in {} |-> NoVersion]
OptionSets == {
    Options(NoOverride, NoOverride, FALSE, FALSE),
    Options(NoOverride, NoOverride, FALSE, TRUE),
    Options([root |-> Full(1)], NoOverride, FALSE, FALSE),
    Options([root |-> Full(1)], NoOverride, FALSE, TRUE),
    Options(NoOverride, [libA |-> Tag("latest")], FALSE, FALSE),
    Options(NoOverride, [libB |-> Tag("latest")], FALSE, FALSE),
    Options(NoOverride, NoOverride, TRUE, FALSE) }

\* the versions the planner is asked for: <package>@<2..MaxTarget>
TargetVersions == {Full(M) : M \in 2..MaxTarget}

(***************************************************************************)
(* The registry as the fetcher sees it: every major 1..MaxTarget of every  *)
(* package is published, "latest" and "next" point at the highest one, a   *)
(* partial version resolves to its lowest completion.                      *)
(***************************************************************************)
resolvePackageVersionUsingRegistry(packageName, packageVersion) ==
    IF packageVersion.tag \in {"latest", "next"} THEN Full(MaxTarget)
    ELSE Ver(packageVersion.maj, OrZero(packageVersion.min), OrZero(packageVersion.pat),
             packageVersion.pre)

(***************************************************************************)
(* State of the planner specification.                                     *)
(***************************************************************************)
VARIABLES
    cfg,            \* the invocation: docs published, options, target, and
                    \* what the user answers to a confirmation prompt
    installed,      \* what module resolution finds under the workspace root
    packageJson,    \* the manifest handed to the Migrator
    installedPkgVersionOverrides,   \* Migrator.installedPkgVersionOverrides
    packageUpdates,                 \* Migrator.packageUpdates, in key order
    collectedVersions,              \* Migrator.collectedVersions
    tasks,          \* the suspended async calls, by id
    microq,         \* continuations ready to run, in the order they became ready
    fetches,        \* the fetch's cache: key <<name, version>> -> request
    nextId,         \* next free task id
    phase,          \* "idle", "planning", "done" or "failed" (migrate has
                    \* settled), "generated" or "aborted" (the command has)
    migrations,     \* the list migrate() returned
    run,            \* number of the current migrate() run
    rerun,          \* how the current run was started: "first", "same", "applied"
    firstResult,    \* what the first run returned
    viaShortcut,    \* packages whose plan entry the not-installed shortcut wrote
    files,          \* nx.json and migrations.json under the workspace root
    log             \* what the planner's methods were seen to do in this run:
                    \* one record per call observed

\* State of the fetcher specification: one fetcher made by createFetcher().
VARIABLES
    migrationsCache,    \* key <<name, version>> -> id of the cached promise
    resolvedVersionCache,   \* key -> id of the chain whose resolution is cached
    chains,             \* the promises nxMigrateFetcher made, by id: where the
                        \* chain of fetchMigrations stands
    fcalls,             \* the calls made so far: key, promise returned
    invoked             \* how often each primitive was invoked, by its arguments

fetchVars == <<migrationsCache, resolvedVersionCache, chains, fcalls, invoked>>

\* State of the runner specification: one call of runMigrations().
VARIABLES
    runner      \* its options, the workspace it runs in, where it stands and
                \* what it has done so far

runVars == <<runner>>

\* State of the resolver specification: the resolver returned by
\* createInstalledPackageVersionsResolver(), over the packages of `installed`.
VARIABLES
    resolver    \* its cache, and the calls made so far with their results

resolverVars == <<resolver>>

planVars == <<cfg, installed, packageJson, installedPkgVersionOverrides, packageUpdates,
              collectedVersions, tasks, microq, fetches, nextId, phase, migrations,
              run, rerun, firstResult, viaShortcut, files, log>>

\* the planner's mutable state as one value, threaded through the operators
\* that model the methods
St == [pu |-> packageUpdates, cv |-> collectedVersions,
       ov |-> installedPkgVersionOverrides, tasks |-> tasks, microq |-> microq,
       fetches |-> fetches, nextId |-> nextId, phase |-> phase,
       migrations |-> migrations, viaShortcut |-> viaShortcut, log |-> log]

\* the call e has been observed
Observe(S, e) == [S EXCEPT !.log = @ \cup {e}]

(***************************************************************************)
(* Installed-version resolver.                                             *)
(***************************************************************************)
OnDisk(packageName) ==
    IF packageName \in DOMAIN installed THEN installed[packageName] ELSE NoVersion
\* obj[key], undefined when the key is absent
Lookup(obj, key) == IF key \in DOMAIN obj THEN obj[key] ELSE NoVersion

getInstalledPackageVersion(packageName, overrides) ==
    IF Truthy(Lookup(overrides, packageName)) THEN Lookup(overrides, packageName)
    ELSE IF Truthy(OnDisk(packageName)) THEN OnDisk(packageName)
    ELSE IF packageName = "nx"
         THEN (IF Truthy(Lookup(overrides, "@nrwl/workspace"))
               THEN Lookup(overrides, "@nrwl/workspace")
               ELSE OnDisk("@nrwl/workspace"))
         ELSE NoVersion

\* Migrator.getPkgVersion
getPkgVersion(S, pkg) == getInstalledPackageVersion(pkg, S.ov)
\* this.getInstalledPackageVersion(pkg) without overrides
NoOverrides == [p \in {} |-> NoVersion]

(***************************************************************************)
(* Migrator: the synchronous helpers.                                      *)
(***************************************************************************)
\* addPackageUpdate without the comparison
addPackageUpdate_overwrite(S, name, packageUpdate) ==
    [S EXCEPT !.pu = Put(@, packageUpdate)]

\* addPackageUpdate keeping the plan as a list it pushes to
addPackageUpdate_push(S, name, packageUpdate) ==
    IF ~Has(S.pu, name) \/ gt(packageUpdate.version, Get(S.pu, name).version)
    THEN [S EXCEPT !.pu = Append(@, packageUpdate)]
    ELSE S

addPackageUpdate(S, name, packageUpdate) ==
    IF ~Has(S.pu, name) \/ gt(packageUpdate.version, Get(S.pu, name).version)
    THEN [S EXCEPT !.pu = Put(@, packageUpdate)]
    ELSE S

\* areRequirementsMet asking only whether each required package is there:
\* installed, planned or admitted, at whatever version
areRequirementsMet_presence(S, requirements, extraPackageUpdatesToCheck) ==
    \/ requirements = <<>>
    \/ \A i \in 1..Len(requirements) :
         \/ Truthy(getPkgVersion(S, requirements[i].name))
         \/ Has(S.pu, requirements[i].name)
         \/ Has(extraPackageUpdatesToCheck, requirements[i].name)

\* ... without the updates admitted so far in the same item
areRequirementsMet_noExtra(S, requirements, extraPackageUpdatesToCheck) ==
    \/ requirements = <<>>
    \/ \A i \in 1..Len(requirements) :
         LET pkgName == requirements[i].name
             versionRange == requirements[i].range
         IN \/ /\ Truthy(getPkgVersion(S, pkgName))
               /\ satisfies(getPkgVersion(S, pkgName), versionRange)
            \/ /\ Has(S.pu, pkgName)
               /\ Truthy(Get(S.pu, pkgName).version)
               /\ satisfies(Get(S.pu, pkgName).version, versionRange)

areRequirementsMet(S, requirements, extraPackageUpdatesToCheck) ==
    \/ requirements = <<>>
    \/ \A i \in 1..Len(requirements) :
         LET pkgName == requirements[i].name
             versionRange == requirements[i].range
         IN \/ /\ Truthy(getPkgVersion(S, pkgName))
               /\ satisfies(getPkgVersion(S, pkgName), versionRange)
            \/ /\ Has(S.pu, pkgName)
               /\ Truthy(Get(S.pu, pkgName).version)
               /\ satisfies(Get(S.pu, pkgName).version, versionRange)
            \/ /\ Has(extraPackageUpdatesToCheck, pkgName)
               /\ Truthy(Get(extraPackageUpdatesToCheck, pkgName).version)
               /\ satisfies(cleanSemver(Get(extraPackageUpdatesToCheck, pkgName).version),
                            versionRange)

wasMigrationSkipped(requirements) ==
    /\ requirements # <<>>
    /\ \E i \in 1..Len(requirements) :
         LET v == getInstalledPackageVersion(requirements[i].name, NoOverrides)
         IN ~Truthy(v) \/ ~satisfies(v, requirements[i].range)

\* isMigrationForHigherVersionThanWhatIsInstalled judging by the version the
\* planner sees, --from included
isMigrationForHigherVersionThanWhatIsInstalled_seen(S, packageName, migration) ==
    LET installedVersion == getPkgVersion(S, packageName)
    IN /\ Truthy(migration.version)
       /\ (~Truthy(installedVersion) \/ gt(migration.version, installedVersion))
       /\ lte(migration.version, Get(S.pu, packageName).version)

isMigrationForHigherVersionThanWhatIsInstalled(S, packageName, migration) ==
    LET installedVersion == getInstalledPackageVersion(packageName, NoOverrides)
    IN /\ Truthy(migration.version)
       /\ (~Truthy(installedVersion) \/ gt(migration.version, installedVersion))
       /\ lte(migration.version, Get(S.pu, packageName).version)

\* areMigrationRequirementsMet without the look at the requirements
areMigrationRequirementsMet_noRequires(S, packageName, migration) ==
    \/ ~cfg.opts.excludeAppliedMigrations
    \/ wasMigrationSkipped(migration.requires)
    \/ isMigrationForHigherVersionThanWhatIsInstalled(S, packageName, migration)

\* areMigrationRequirementsMet trusting the skip detection alone
areMigrationRequirementsMet_skipOnly(S, packageName, migration) ==
    IF ~cfg.opts.excludeAppliedMigrations
    THEN areRequirementsMet(S, migration.requires, <<>>)
    ELSE \/ wasMigrationSkipped(migration.requires)
         \/ /\ isMigrationForHigherVersionThanWhatIsInstalled(S, packageName, migration)
            /\ areRequirementsMet(S, migration.requires, <<>>)

areMigrationRequirementsMet(S, packageName, migration) ==
    IF ~cfg.opts.excludeAppliedMigrations
    THEN areRequirementsMet(S, migration.requires, <<>>)
    ELSE /\ \/ wasMigrationSkipped(migration.requires)
            \/ isMigrationForHigherVersionThanWhatIsInstalled(S, packageName, migration)
         /\ areRequirementsMet(S, migration.requires, <<>>)

LegacyThreshold == Ver(14, 0, 0, 1)
LegacyNames ==
    <<"@nrwl/workspace", "@nrwl/angular", "@nrwl/cypress", "@nrwl/devkit",
      "@nrwl/eslint-plugin-nx", "@nrwl/express", "@nrwl/jest", "@nrwl/linter",
      "@nrwl/nest", "@nrwl/next", "@nrwl/node", "@nrwl/nx-plugin", "@nrwl/react",
      "@nrwl/storybook", "@nrwl/web", "@nrwl/js", "@nrwl/cli", "@nrwl/nx-cloud",
      "@nrwl/react-native", "@nrwl/detox", "@nrwl/expo">>
LEGACY_NRWL_PACKAGE_GROUP ==
    [i \in 1..Len(LegacyNames) |->
       GroupItem(LegacyNames[i],
                 IF LegacyNames[i] = "@nrwl/nx-cloud" THEN Tag("latest") ELSE Tag("*"))]

\* the packages object of the synthetic update, and the overrides, after the
\* loop over packageGroup[i..]
RECURSIVE GroupLoop(_, _, _, _, _, _)

\* ... with = for ??=: the override of the child is overwritten
GroupLoop_overwrite(packageGroup, i, packageName, targetVersion, packages, ov) ==
    IF i > Len(packageGroup) THEN [packages |-> packages, ov |-> ov]
    ELSE LET packageConfig == packageGroup[i]
             child == packageConfig.package
             entry == Entry(child,
                            IF packageConfig.version = Tag("*") THEN targetVersion
                            ELSE packageConfig.version,
                            FALSE, "false", "")
             ov2 == IF /\ packageConfig.version = Tag("*")
                       /\ Truthy(Lookup(ov, packageName))
                    THEN [p \in DOMAIN ov \cup {child} |->
                            IF p = child THEN Lookup(ov, packageName) ELSE ov[p]]
                    ELSE ov
         IN GroupLoop(packageGroup, i + 1, packageName, targetVersion,
                      Put(packages, entry), ov2)

GroupLoop(packageGroup, i, packageName, targetVersion, packages, ov) ==
    IF i > Len(packageGroup) THEN [packages |-> packages, ov |-> ov]
    ELSE LET packageConfig == packageGroup[i]
             child == packageConfig.package
             entry == Entry(child,
                            IF packageConfig.version = Tag("*") THEN targetVersion
                            ELSE packageConfig.version,
                            FALSE, "false", "")
             ov2 == IF /\ packageConfig.version = Tag("*")
                       /\ Truthy(Lookup(ov, packageName))
                       /\ ~Truthy(Lookup(ov, child))
                    THEN [p \in DOMAIN ov \cup {child} |->
                            IF p = child THEN Lookup(ov, packageName) ELSE ov[p]]
                    ELSE ov
         IN GroupLoop(packageGroup, i + 1, packageName, targetVersion,
                      Put(packages, entry), ov2)

\* getPackageJsonUpdatesFromPackageGroup taking every document to have no
\* package group
getPackageJsonUpdatesFromPackageGroup_none(S, packageName, targetVersion, migrationConfig) ==
    [packageGroupOrder |-> <<>>, migrationConfig |-> migrationConfig, ov |-> S.ov]

\* returns the order of the group, the mutated migrationConfig and the
\* mutated overrides
getPackageJsonUpdatesFromPackageGroup(S, packageName, targetVersion, migrationConfig) ==
    LET packageGroup ==
            IF packageName = "@nrwl/workspace" /\ SemverLt(targetVersion, LegacyThreshold)
            THEN LEGACY_NRWL_PACKAGE_GROUP
            ELSE migrationConfig.packageGroup
    IN IF packageGroup = <<>>
       THEN [packageGroupOrder |-> <<>>, migrationConfig |-> migrationConfig, ov |-> S.ov]
       ELSE LET loop == GroupLoop(packageGroup, 1, packageName, targetVersion, <<>>, S.ov)
                synthetic == [version |-> targetVersion, packages |-> loop.packages,
                              hasPackages |-> TRUE, requires |-> <<>>, prompt |-> FALSE]
            IN [packageGroupOrder |-> [i \in 1..Len(packageGroup) |-> packageGroup[i].package],
                migrationConfig |->
                    [migrationConfig EXCEPT !.packageJsonUpdates = Append(@, synthetic)],
                ov |-> loop.ov]

\* filterPackages without the look at the manifest
filterPackages_anyPackage(S, packages) ==
    LET keep == {i \in 1..Len(packages) :
                   LET packageUpdate == packages[i]
                       packageName == packageUpdate.name
                   IN /\ \/ packageUpdate.ifPackageInstalled = ""
                         \/ Truthy(getPkgVersion(S, packageUpdate.ifPackageInstalled))
                      /\ \/ ~Truthy(Lookup(S.cv, packageName))
                         \/ gt(packageUpdate.version, Lookup(S.cv, packageName))}
        kept == SelectSeqIdx(packages, keep, 1)
    IN [i \in 1..Len(kept) |->
          PackageUpdate(kept[i].name, kept[i].version,
                        IF kept[i].alwaysAddToPackageJson THEN "dependencies"
                        ELSE kept[i].addToPackageJson)]

\* the entries of one update's packages that survive, rewritten
filterPackages(S, packages) ==
    LET keep == {i \in 1..Len(packages) :
                   LET packageUpdate == packages[i]
                       packageName == packageUpdate.name
                   IN /\ \/ packageUpdate.ifPackageInstalled = ""
                         \/ Truthy(getPkgVersion(S, packageUpdate.ifPackageInstalled))
                      /\ \/ packageUpdate.alwaysAddToPackageJson
                         \/ packageUpdate.addToPackageJson # "false"
                         \/ Truthy(Lookup(packageJson.dependencies, packageName))
                         \/ Truthy(Lookup(packageJson.devDependencies, packageName))
                      /\ \/ ~Truthy(Lookup(S.cv, packageName))
                         \/ gt(packageUpdate.version, Lookup(S.cv, packageName))}
        kept == SelectSeqIdx(packages, keep, 1)
    IN [i \in 1..Len(kept) |->
          PackageUpdate(kept[i].name, kept[i].version,
                        IF kept[i].alwaysAddToPackageJson THEN "dependencies"
                        ELSE kept[i].addToPackageJson)]

\* the test a candidate update passes, with a target version it must stay
\* below
isCandidate_belowTarget(S, packageJsonUpdate, packageName, targetVersion) ==
    /\ packageJsonUpdate.hasPackages
    /\ ~lte(packageJsonUpdate.version, getPkgVersion(S, packageName))
    /\ ~gt(packageJsonUpdate.version, targetVersion)
    /\ packageJsonUpdate.version # targetVersion

\* the test a candidate update passes: the negation of the condition of
\* the continue
isCandidate(S, packageJsonUpdate, packageName, targetVersion) ==
    /\ packageJsonUpdate.hasPackages
    /\ ~lte(packageJsonUpdate.version, getPkgVersion(S, packageName))
    /\ ~gt(packageJsonUpdate.version, targetVersion)

filterPackageJsonUpdates(S, packageJsonUpdates, packageName, targetVersion) ==
    LET rewritten == [i \in 1..Len(packageJsonUpdates) |->
                        [packageJsonUpdates[i] EXCEPT !.packages = filterPackages(S, @)]]
        keep == {i \in 1..Len(packageJsonUpdates) :
                   /\ isCandidate(S, packageJsonUpdates[i], packageName, targetVersion)
                   /\ rewritten[i].packages # <<>>}
    IN SelectSeqIdx(rewritten, keep, 1)

getPackageJsonUpdatesFromMigrationConfig(S, packageName, targetVersion, migrationConfig) ==
    LET g == getPackageJsonUpdatesFromPackageGroup(S, packageName, targetVersion,
                                                   migrationConfig)
        S1 == [S EXCEPT !.ov = g.ov]
    IN [ov |-> g.ov,
        packageGroupOrder |-> g.packageGroupOrder,
        packageJsonUpdates |->
            IF g.migrationConfig.packageJsonUpdates = <<>>
               \/ ~Truthy(getPkgVersion(S1, packageName))
            THEN <<>>
            ELSE filterPackageJsonUpdates(S1, g.migrationConfig.packageJsonUpdates,
                                          packageName, targetVersion)]

(***************************************************************************)
(* The asynchronous calls.  A task is one suspended async call: where it   *)
(* stands (st), who awaits it (parent, slot) and its locals.  Code between *)
(* two awaits runs as one step.                                            *)
(***************************************************************************)
Pending == [done |-> FALSE, val |-> <<>>]
Settled(val) == [done |-> TRUE, val |-> val]

Frame(kind, pkg, target, parent, slot, st) ==
    [kind |-> kind, pkg |-> pkg, target |-> target, parent |-> parent, slot |-> slot,
     st |-> st, key |-> <<>>, results |-> <<>>, nwait |-> 0, packageGroupOrder |-> <<>>,
     packagesToCheck |-> <<>>, idx |-> 0, uidx |-> 0, filteredUpdates |-> <<>>,
     answer |-> TRUE]

NewTask(S, f) == [S EXCEPT !.tasks = @ @@ (S.nextId :> f), !.nextId = @ + 1]
DropTask(S, id) == [S EXCEPT !.tasks = [i \in DOMAIN @ \ {id} |-> @[i]]]
Enqueue(S, id) == [S EXCEPT !.microq = Append(@, id)]

\* the awaited call in slot `slot` of task `parent` has settled with val
Deliver(S, parent, slot, val) ==
    [S EXCEPT !.tasks[parent].results[slot] = Settled(val),
              !.tasks[parent].nwait = @ - 1]
\* task id has issued its calls and awaits them: with none outstanding its
\* continuation is ready at once
Await(S, id) == IF S.tasks[id].nwait = 0 THEN Enqueue(S, id) ELSE S
\* task id returns val to the call that awaits it
Return(S, id, val) ==
    LET f == S.tasks[id]
        S1 == Deliver(DropTask(S, id), f.parent, f.slot, val)
    IN Await(S1, f.parent)

\* task id calls this.fetch(packageName, packageVersion) and awaits the
\* promise: a cached promise is joined, a settled one continues in a microtask
fetch(S, id, packageName, packageVersion) ==
    LET key == <<packageName, packageVersion>>
        S1 == [S EXCEPT !.tasks[id].key = key]
    IN IF key \in DOMAIN S.fetches
       THEN IF S.fetches[key].settled
            THEN Enqueue(S1, id)
            ELSE [S1 EXCEPT !.fetches[key].waiters = Append(@, id)]
       ELSE [S1 EXCEPT !.fetches = @ @@ (key :> [settled |-> FALSE, waiters |-> <<id>>])]

\* the document the fetch resolves with
fetched(key) ==
    [version |-> resolvePackageVersionUsingRegistry(key[1], key[2]),
     packageGroup |-> cfg.docs[key[1]].packageGroup,
     packageJsonUpdates |-> cfg.docs[key[1]].packageJsonUpdates,
     generators |-> cfg.docs[key[1]].generators]

\* populatePackageJsonUpdatesAndGetPackagesToCheck up to its first await,
\* called from slot `slot` of task `parent`
\* what a visit of targetPackage that went from planner state S to T is
\* seen to have done before its first await
Visit(S, T, targetPackage, target, parent, slot) ==
    [ev |-> "visit", name |-> targetPackage, target |-> target,
     installed |-> getPkgVersion(S, targetPackage),
     planBefore |-> IF Has(S.pu, targetPackage) THEN Get(S.pu, targetPackage).version
                    ELSE NoVersion,
     planAfter |-> IF Has(T.pu, targetPackage) THEN Get(T.pu, targetPackage)
                   ELSE PackageUpdate(targetPackage, NoVersion, "false"),
     others |-> [i \in 1..Len(S.pu) |-> IF S.pu[i].name = targetPackage THEN <<>>
                                        ELSE S.pu[i]]
                = [i \in 1..Len(S.pu) |-> IF T.pu[i].name = targetPackage THEN <<>>
                                          ELSE T.pu[i]],
     collected |-> T.cv = S.cv,
     fetching |-> {k \in DOMAIN T.fetches :
                    k \notin DOMAIN S.fetches \/ T.fetches[k] # S.fetches[k]},
     calls |-> DOMAIN T.tasks \ DOMAIN S.tasks,
     returned |-> T.tasks[parent].results[slot]]

\* populatePackageJsonUpdatesAndGetPackagesToCheck without the shortcut for
\* a package that is not installed
populateEnter_noShortcut(S, targetPackage, target, parent, slot) ==
    LET targetVersion == IF Truthy(Lookup(cfg.opts.to, targetPackage))
                         THEN cfg.opts.to[targetPackage] ELSE target.version
        T == fetch(NewTask(S, Frame("populate", targetPackage, target, parent, slot,
                                    "fetch")),
                   S.nextId, targetPackage, targetVersion)
    IN Observe(T, Visit(S, T, targetPackage, target, parent, slot))

populateEnter(S, targetPackage, target, parent, slot) ==
    LET targetVersion == IF Truthy(Lookup(cfg.opts.to, targetPackage))
                         THEN cfg.opts.to[targetPackage] ELSE target.version
        T == IF ~Truthy(getPkgVersion(S, targetPackage))
             THEN LET S1 == addPackageUpdate(S, targetPackage,
                                PackageUpdate(targetPackage, target.version,
                                              target.addToPackageJson))
                      S2 == [S1 EXCEPT !.viaShortcut =
                                IF S1.pu # S.pu THEN @ \cup {targetPackage} ELSE @]
                  IN Deliver(S2, parent, slot, <<>>)
             ELSE fetch(NewTask(S, Frame("populate", targetPackage, target, parent, slot,
                                         "fetch")),
                        S.nextId, targetPackage, targetVersion)
    IN Observe(T, Visit(S, T, targetPackage, target, parent, slot))

RECURSIVE SpawnPopulates(_, _, _, _)
SpawnPopulates(S, entries, parent, i) ==
    IF i > Len(entries) THEN S
    ELSE SpawnPopulates(populateEnter(S, entries[i].name, entries[i], parent, i),
                        entries, parent, i + 1)

RECURSIVE FoldPackages(_, _)
\* packageJsonUpdates.reduce((m, c) => ({ ...m, ...c.packages }), {})
FoldPackages(m, packageJsonUpdates) ==
    IF packageJsonUpdates = <<>> THEN m
    ELSE FoldPackages(Spread(m, Head(packageJsonUpdates).packages), Tail(packageJsonUpdates))

\* the version window of createMigrateJson's filter, with >= for >
inWindow_gte(migration, currentVersion, version) ==
    /\ Truthy(migration.version)
    /\ ~gt(currentVersion, migration.version)
    /\ lte(migration.version, version)

\* the version window of createMigrateJson's filter
inWindow(migration, currentVersion, version) ==
    /\ Truthy(migration.version)
    /\ gt(migration.version, currentVersion)
    /\ lte(migration.version, version)

\* this.collectedVersions[targetPackage] = targetVersion, left out
setCollectedVersion_skip(S, targetPackage, targetVersion) == S

\* this.collectedVersions[targetPackage] = targetVersion
setCollectedVersion(S, targetPackage, targetVersion) ==
    [S EXCEPT !.cv[targetPackage] = targetVersion]

\* the fixed-point check of the visit, left out
alreadyCollected_never(S, targetPackage, targetVersion) == FALSE

\* the fixed-point check of the visit, with gt for gte
alreadyCollected_gt(S, targetPackage, targetVersion) ==
    /\ Truthy(S.cv[targetPackage])
    /\ SemverGt(S.cv[targetPackage], targetVersion)

\* the fixed-point check of the visit
alreadyCollected(S, targetPackage, targetVersion) ==
    /\ Truthy(S.cv[targetPackage])
    /\ SemverGte(S.cv[targetPackage], targetVersion)

\* what the part of a visit after its fetch, which went from planner state
\* S to T, is seen to have done
Fetched(S, T, id) ==
    LET f == S.tasks[id]
    IN [ev |-> "fetched", name |-> f.pkg, requested |-> f.key[2],
        resolved |-> fetched(f.key).version,
        collectedBefore |-> S.cv[f.pkg],
        collectedAfter |-> T.cv[f.pkg],
        overridesBefore |-> S.ov,
        same |-> /\ T.pu = S.pu /\ T.cv = S.cv /\ T.ov = S.ov
                 /\ T.fetches = S.fetches /\ T.log = S.log
                 /\ DOMAIN T.tasks \subseteq DOMAIN S.tasks,
        plan |-> Get(T.pu, f.pkg).version,
        returned |-> IF id \in DOMAIN T.tasks THEN Pending
                     ELSE T.tasks[f.parent].results[f.slot]]

\* populatePackageJsonUpdatesAndGetPackagesToCheck from the return of the
\* fetch to its next await or its return
populateContinue(S, id) ==
    LET f == S.tasks[id]
        targetPackage == f.pkg
        migrationConfig == fetched(f.key)
        targetVersion == migrationConfig.version
    IN IF alreadyCollected(S, targetPackage, targetVersion)
       THEN Return(S, id, <<>>)
       ELSE
       LET S1 == setCollectedVersion(S, targetPackage, targetVersion)
           S2 == addPackageUpdate(S1, targetPackage,
                     PackageUpdate(targetPackage, migrationConfig.version,
                                   f.target.addToPackageJson))
           S3 == [S2 EXCEPT !.viaShortcut =
                     IF S2.pu # S1.pu THEN @ \ {targetPackage} ELSE @]
           r == getPackageJsonUpdatesFromMigrationConfig(S3, targetPackage, targetVersion,
                                                         migrationConfig)
           S4 == [S3 EXCEPT !.ov = r.ov]
           packageJsonUpdates == r.packageJsonUpdates
           shouldCheckUpdates ==
               \E i \in 1..Len(packageJsonUpdates) :
                  \/ cfg.opts.interactive /\ packageJsonUpdates[i].prompt
                  \/ packageJsonUpdates[i].requires # <<>>
           packageUpdatesToApply == FoldPackages(<<>>, packageJsonUpdates)
       IN IF packageJsonUpdates = <<>> THEN Return(S4, id, <<>>)
          ELSE IF shouldCheckUpdates
          THEN Return(S4, id, <<[package |-> targetPackage, updates |-> packageJsonUpdates]>>)
          ELSE Await(SpawnPopulates(
                       [S4 EXCEPT !.log = @ \cup
                                    {[ev |-> "apply", package |-> targetPackage,
                                      entry |-> packageUpdatesToApply[i]] :
                                        i \in 1..Len(packageUpdatesToApply)},
                                  !.tasks[id] =
                          [f EXCEPT !.st = "children",
                                    !.results = [i \in 1..Len(packageUpdatesToApply) |-> Pending],
                                    !.nwait = Len(packageUpdatesToApply),
                                    !.packageGroupOrder = r.packageGroupOrder]],
                       packageUpdatesToApply, id, 1), id)

populateFetched(S, id) ==
    LET T == populateContinue(S, id)
    IN Observe(T, Fetched(S, T, id))

\* the deferred items left in the order Promise.all returns them
SortByGroupOrder_asCollected(s, order) == s

\* Array.prototype.sort with compare(a, b) = key(a) - key(b): stable
RECURSIVE InsertSorted(_, _, _)
InsertSorted(sorted, x, order) ==
    IF sorted = <<>> THEN <<x>>
    ELSE IF indexOf(order, sorted[Len(sorted)].package) <= indexOf(order, x.package)
         THEN Append(sorted, x)
         ELSE Append(InsertSorted(SubSeq(sorted, 1, Len(sorted) - 1), x, order),
                     sorted[Len(sorted)])
RECURSIVE SortByGroupOrder(_, _)
SortByGroupOrder(s, order) ==
    IF s = <<>> THEN <<>>
    ELSE InsertSorted(SortByGroupOrder(SubSeq(s, 1, Len(s) - 1), order), s[Len(s)], order)

\* ... from the return of Promise.all to its return
populateJoined(S, id) ==
    LET f == S.tasks[id]
        all == [i \in 1..Len(f.results) |-> f.results[i].val]
    IN Return(S, id, SortByGroupOrder(Flat(all), f.packageGroupOrder))

\* buildPackageJsonUpdates up to its first await
buildEnter(S, targetPackage, target, parent, slot) ==
    LET id == S.nextId
        S1 == NewTask(S, [Frame("build", targetPackage, target, parent, slot, "populate")
                            EXCEPT !.results = <<Pending>>, !.nwait = 1])
    IN Await(populateEnter(S1, targetPackage, target, id, 1), id)

RECURSIVE SpawnBuilds(_, _, _, _)
SpawnBuilds(S, entries, parent, i) ==
    IF i > Len(entries) THEN S
    ELSE SpawnBuilds(buildEnter(S, entries[i].name, entries[i], parent, i),
                     entries, parent, i + 1)

\* update uidx of deferred item idx of task id is seen to be admitted, to be
\* asked about, or to be declined
Outcome(kind, id, idx, uidx, packageUpdate) ==
    [ev |-> kind, task |-> id, idx |-> idx, uidx |-> uidx,
     packages |-> packageUpdate.packages, prompt |-> packageUpdate.prompt]

\* ... asking whether the update carries an x-prompt or not
runPackageJsonUpdatesConfirmationPrompt_always(S, id, packageUpdate) ==
    Observe([S EXCEPT !.tasks[id].st = "prompt"],
            Outcome("prompt", id, S.tasks[id].idx, S.tasks[id].uidx, packageUpdate))

\* runPackageJsonUpdatesConfirmationPrompt called for the update task id
\* stands at: without an x-prompt it resolves to true at once, with one the
\* user is asked
runPackageJsonUpdatesConfirmationPrompt(S, id, packageUpdate) ==
    IF packageUpdate.prompt
    THEN Observe([S EXCEPT !.tasks[id].st = "prompt"],
                 Outcome("prompt", id, S.tasks[id].idx, S.tasks[id].uidx, packageUpdate))
    ELSE Enqueue([S EXCEPT !.tasks[id].st = "prompted"], id)

\* buildPackageJsonUpdates from update uidx of deferred item idx on, to its
\* next await or its return
RECURSIVE buildLoop(_, _, _, _, _, _)
buildLoop(S, id, packagesToCheck, idx, uidx, filteredUpdates) ==
    IF idx > Len(packagesToCheck) THEN Return(S, id, <<>>)
    ELSE
    LET updates == packagesToCheck[idx].updates
    IN IF uidx > Len(updates)
       THEN \* Promise.all over the admitted entries
            Await(SpawnBuilds(
                     [S EXCEPT !.log = @ \cup
                                  {[ev |-> "recurse", task |-> id, idx |-> idx,
                                    package |-> packagesToCheck[idx].package,
                                    entry |-> filteredUpdates[i]] :
                                      i \in 1..Len(filteredUpdates)},
                               !.tasks[id] =
                        [@ EXCEPT !.st = "children", !.idx = idx, !.uidx = uidx,
                                  !.filteredUpdates = <<>>,
                                  !.packagesToCheck = packagesToCheck,
                                  !.results = [i \in 1..Len(filteredUpdates) |-> Pending],
                                  !.nwait = Len(filteredUpdates)]],
                     filteredUpdates, id, 1), id)
       ELSE
       LET packageUpdate == updates[uidx]
           met == areRequirementsMet(S, packageUpdate.requires, filteredUpdates)
           S0 == Observe(S, [ev |-> "decision",
                             task |-> id, idx |-> idx, uidx |-> uidx,
                             caller |-> S.tasks[id].pkg,
                             prompt |-> packageUpdate.prompt,
                             package |-> packagesToCheck[idx].package,
                             packages |-> packageUpdate.packages,
                             requires |-> packageUpdate.requires,
                             seen |-> [i \in 1..Len(packageUpdate.requires) |->
                                         LET q == packageUpdate.requires[i].name
                                         IN [installed |-> getPkgVersion(S, q),
                                             planned |-> IF Has(S.pu, q)
                                                         THEN Get(S.pu, q).version
                                                         ELSE NoVersion,
                                             admitted |-> IF Has(filteredUpdates, q)
                                                          THEN Get(filteredUpdates, q).version
                                                          ELSE NoVersion]],
                             met |-> met])
       IN IF ~met
          THEN buildLoop(S0, id, packagesToCheck, idx, uidx + 1, filteredUpdates)
          ELSE IF ~cfg.opts.interactive
          THEN buildLoop(Observe(S0, Outcome("admit", id, idx, uidx, packageUpdate)),
                         id, packagesToCheck, idx, uidx + 1,
                         Spread(filteredUpdates, packageUpdate.packages))
          ELSE \* await runPackageJsonUpdatesConfirmationPrompt(x-prompt)
               runPackageJsonUpdatesConfirmationPrompt(
                  [S0 EXCEPT !.tasks[id] =
                      [@ EXCEPT !.idx = idx, !.uidx = uidx,
                                !.filteredUpdates = filteredUpdates,
                                !.packagesToCheck = packagesToCheck,
                                !.results = <<>>,
                                !.answer = TRUE]],
                  id, packageUpdate)

\* createMigrateJson: the callback of one package up to its await
migrationsEnter(S, packageName, parent, slot) ==
    LET currentVersion == getPkgVersion(S, packageName)
        version == Get(S.pu, packageName).version
    IN IF ~Truthy(currentVersion) THEN Deliver(S, parent, slot, <<>>)
       ELSE fetch(NewTask(S, Frame("migrations", packageName, Get(S.pu, packageName),
                                   parent, slot, "fetch")),
                  S.nextId, packageName, version)

RECURSIVE SpawnMigrations(_, _, _, _)
SpawnMigrations(S, names, parent, i) ==
    IF i > Len(names) THEN S
    ELSE SpawnMigrations(migrationsEnter(S, names[i], parent, i), names, parent, i + 1)

\* createMigrateJson: what the callback of one package returns
generatedMigrations(S, id) ==
    LET f == S.tasks[id]
        packageName == f.pkg
        currentVersion == getPkgVersion(S, packageName)
        version == f.target.version
        generators == fetched(f.key).generators
        keep == {i \in 1..Len(generators) :
                   /\ inWindow(generators[i], currentVersion, version)
                   /\ areMigrationRequirementsMet(S, packageName, generators[i])}
        kept == SelectSeqIdx(generators, keep, 1)
    IN [i \in 1..Len(kept) |->
          [package |-> packageName, name |-> kept[i].name,
           version |-> kept[i].version, requires |-> kept[i].requires]]

\* the callback of package S.tasks[id].pkg is seen to finish as the nth of
\* the callbacks of Promise.all
Completed(S, id) ==
    LET f == S.tasks[id]
    IN [ev |-> "completed", package |-> f.pkg,
        nth |-> 1 + Cardinality({i \in 1..Len(S.tasks[f.parent].results) :
                                    S.tasks[f.parent].results[i].done})]

\* the callback of one package after its fetch, its result taking the first
\* place of the array that is still free
migrationsFetched_inCompletionOrder(S, id) ==
    LET f == S.tasks[id]
        results == S.tasks[f.parent].results
        free == CHOOSE i \in 1..Len(results) :
                   /\ ~results[i].done
                   /\ \A j \in 1..(i - 1) : results[j].done
    IN Observe(Await(Deliver(DropTask(S, id), f.parent, free, generatedMigrations(S, id)),
                     f.parent),
               Completed(S, id))

\* createMigrateJson: the callback of one package after its fetch
migrationsFetched(S, id) ==
    Observe(Return(S, id, generatedMigrations(S, id)), Completed(S, id))

\* createMigrateJson up to its await of Promise.all
createMigrateJson(S, id) ==
    LET names == Keys(S.pu)
    IN Await(SpawnMigrations(
                [S EXCEPT !.tasks[id] =
                   [@ EXCEPT !.st = "migrations",
                             !.results = [i \in 1..Len(names) |-> Pending],
                             !.nwait = Len(names)]],
                names, id, 1), id)

\* migrate() after createMigrateJson has returned
migrateReturn(S, id) ==
    LET f == S.tasks[id]
    IN [DropTask(S, id) EXCEPT
          !.migrations = Flat([i \in 1..Len(f.results) |-> f.results[i].val]),
          !.phase = "done"]

\* the continuation of task id
Resume(S, id) ==
    LET f == S.tasks[id]
    IN CASE f.kind = "populate" /\ f.st = "fetch" -> populateFetched(S, id)
         [] f.kind = "populate" /\ f.st = "children" -> populateJoined(S, id)
         [] f.kind = "build" /\ f.st = "populate" ->
                buildLoop(S, id, f.results[1].val, 1, 1, <<>>)
         [] f.kind = "build" /\ f.st = "children" ->
                buildLoop(S, id, f.packagesToCheck, f.idx + 1, 1, <<>>)
         [] f.kind = "build" /\ f.st \in {"prompt", "prompted"} ->
                LET updates == f.packagesToCheck[f.idx].updates
                IN buildLoop(Observe(S, Outcome(IF f.answer THEN "admit" ELSE "decline",
                                                id, f.idx, f.uidx, updates[f.uidx])),
                             id, f.packagesToCheck, f.idx, f.uidx + 1,
                             IF f.answer
                             THEN Spread(f.filteredUpdates, updates[f.uidx].packages)
                             ELSE f.filteredUpdates)
         [] f.kind = "migrations" -> migrationsFetched(S, id)
         [] f.kind = "migrate" /\ f.st = "build" -> createMigrateJson(S, id)
         [] f.kind = "migrate" /\ f.st = "migrations" -> migrateReturn(S, id)

\* migrate(targetPackage, targetVersion) up to its first await
migrate(S, targetPackage, targetVersion) ==
    LET id == S.nextId
        S1 == NewTask(S, [Frame("migrate", targetPackage,
                                PackageUpdate(targetPackage, targetVersion, "false"),
                                0, 0, "build")
                            EXCEPT !.results = <<Pending>>, !.nwait = 1])
    IN Await(buildEnter([S1 EXCEPT !.phase = "planning"], targetPackage,
                        PackageUpdate(targetPackage, targetVersion, "false"), id, 1), id)

\* updatePackageJson looking into dependencies before devDependencies
RECURSIVE updatePackageJson_dependenciesFirst(_, _, _)
updatePackageJson_dependenciesFirst(json, updatedPackages, i) ==
    IF i > Len(updatedPackages) THEN json
    ELSE LET p == updatedPackages[i].name
             dependencyType == updatedPackages[i].addToPackageJson
             json2 ==
                 IF Truthy(Lookup(json.dependencies, p))
                 THEN [json EXCEPT !.dependencies[p] = updatedPackages[i].version]
                 ELSE IF Truthy(Lookup(json.devDependencies, p))
                 THEN [json EXCEPT !.devDependencies[p] = updatedPackages[i].version]
                 ELSE IF dependencyType # "false"
                 THEN [json EXCEPT ![dependencyType][p] = updatedPackages[i].version]
                 ELSE json
         IN updatePackageJson_dependenciesFirst(json2, updatedPackages, i + 1)

\* updatePackageJson: the manifest after the plan has been written to it
RECURSIVE updatePackageJson(_, _, _)
updatePackageJson(json, updatedPackages, i) ==
    IF i > Len(updatedPackages) THEN json
    ELSE LET p == updatedPackages[i].name
             dependencyType == updatedPackages[i].addToPackageJson
             json2 ==
                 IF Truthy(Lookup(json.devDependencies, p))
                 THEN [json EXCEPT !.devDependencies[p] = updatedPackages[i].version]
                 ELSE IF Truthy(Lookup(json.dependencies, p))
                 THEN [json EXCEPT !.dependencies[p] = updatedPackages[i].version]
                 ELSE IF dependencyType # "false"
                 THEN [json EXCEPT ![dependencyType][p] = updatedPackages[i].version]
                 ELSE json
         IN updatePackageJson(json2, updatedPackages, i + 1)

(***************************************************************************)
(* generateMigrationsJsonAndUpdatePackageJson after migrate() has settled. *)
(***************************************************************************)
\* migrations.json: absent, or the list it holds
NoFile == [exists |-> FALSE, migrations |-> <<>>]
File(list) == [exists |-> TRUE, migrations |-> list]

\* nx.json: whether it has an installation block, and the block
NxJson(installation, version, plugins) ==
    [installation |-> installation, version |-> version, plugins |-> plugins]

\* '15.7.0-beta.0'
SplitConfigurationVersion == Ver(15, 7, 0, 1)

\* the entry addSplitConfigurationMigrationIfAvailable returns
SplitConfigurationMigration ==
    [package |-> "@nrwl/workspace",
     name |-> "15-7-0-split-configuration-into-project-json-files",
     version |-> SplitConfigurationVersion, requires |-> <<>>]

readNxVersion(json) ==
    IF Truthy(Lookup(json.devDependencies, "nx")) THEN Lookup(json.devDependencies, "nx")
    ELSE IF Truthy(Lookup(json.dependencies, "nx")) THEN Lookup(json.dependencies, "nx")
    ELSE IF Truthy(Lookup(json.devDependencies, "@nrwl/workspace"))
    THEN Lookup(json.devDependencies, "@nrwl/workspace")
    ELSE Lookup(json.dependencies, "@nrwl/workspace")

\* semver's gte / lt throw on a string that is no version
addSplitConfigurationThrows(from, updates) ==
    /\ Has(updates, "@nrwl/workspace")
    /\ \/ ~Valid(Get(updates, "@nrwl/workspace").version)
       \/ /\ SemverGte(Get(updates, "@nrwl/workspace").version, SplitConfigurationVersion)
          /\ ~Valid(from)

addSplitConfigurationMigrationIfAvailable(from, updates) ==
    IF ~Has(updates, "@nrwl/workspace") THEN <<>>
    ELSE IF /\ SemverGte(Get(updates, "@nrwl/workspace").version, SplitConfigurationVersion)
            /\ SemverLt(from, SplitConfigurationVersion)
         THEN <<SplitConfigurationMigration>>
         ELSE <<>>

updateInstallationDetails(nxJson, updatedPackages) ==
    IF ~nxJson.installation THEN nxJson
    ELSE [nxJson EXCEPT
            !.version = IF Has(updatedPackages, "nx")
                        THEN Get(updatedPackages, "nx").version ELSE @,
            !.plugins = [dep \in DOMAIN @ |->
                           IF Has(updatedPackages, dep)
                           THEN Get(updatedPackages, dep).version ELSE @[dep]]]

\* the files after the command has ended although migrate() failed, written
\* as if it had returned what the Migrator held
generateWrites_onFailure(failed, json, fs, updates, generated) ==
    [packageJson |-> updatePackageJson(json, updates, 1),
     files |-> [fs EXCEPT !.nxJson = updateInstallationDetails(@, updates)],
     threw |-> failed]

\* the files after the command has ended: lines 1122-1130 when migrate()
\* has returned, nothing when it has thrown
generateWrites(failed, json, fs, updates, generated) ==
    IF failed THEN [packageJson |-> json, files |-> fs, threw |-> TRUE]
    ELSE LET from == readNxVersion(json)
             throws == Len(generated) > 0 /\ addSplitConfigurationThrows(from, updates)
         IN [packageJson |-> updatePackageJson(json, updates, 1),
             files |-> [nxJson |-> updateInstallationDetails(fs.nxJson, updates),
                        migrationsJson |->
                           IF Len(generated) > 0 /\ ~throws
                           THEN File(addSplitConfigurationMigrationIfAvailable(from, updates)
                                       \o generated)
                           ELSE fs.migrationsJson],
             threw |-> throws]

(***************************************************************************)
(* The planner specification.                                              *)
(***************************************************************************)
Commit(S) ==
    /\ packageUpdates' = S.pu
    /\ collectedVersions' = S.cv
    /\ installedPkgVersionOverrides' = S.ov
    /\ tasks' = S.tasks
    /\ microq' = S.microq
    /\ fetches' = S.fetches
    /\ nextId' = S.nextId
    /\ phase' = S.phase
    /\ migrations' = S.migrations
    /\ viaShortcut' = S.viaShortcut
    /\ log' = S.log
    /\ UNCHANGED fetchVars
    /\ UNCHANGED runVars
    /\ UNCHANGED resolverVars

Invocations ==
    {inv \in
       {[docs |-> [root |-> dr, libA |-> da, libB |-> db], opts |-> o,
         targetPackage |-> "root", targetVersion |-> t, shouldApply |-> c] :
           dr \in RootDocs, da \in LibADocs, db \in LibBDocs, o \in OptionSets,
           t \in TargetVersions, c \in BOOLEAN} :
       inv.opts.interactive \/ inv.shouldApply}

NoTasks == [i \in {} |-> 0]

\* a Migrator constructed from the options, a fetcher with empty caches
Fresh(from) ==
    /\ installedPkgVersionOverrides = from
    /\ packageUpdates = <<>>
    /\ collectedVersions = Absent
    /\ tasks = NoTasks
    /\ microq = <<>>
    /\ fetches = NoTasks
    /\ nextId = 1
    /\ phase = "idle"
    /\ migrations = <<>>
    /\ viaShortcut = {}
    /\ log = {}

\* the fetcher specification's variables while the planner is modelled
\* with its fetch abstracted
NoRunner == runner = <<>>
NoResolver == resolver = <<>>

NoFetcher ==
    /\ migrationsCache = <<>>
    /\ resolvedVersionCache = <<>>
    /\ chains = <<>>
    /\ fcalls = <<>>
    /\ invoked = <<>>

Init ==
    /\ NoFetcher
    /\ NoRunner
    /\ NoResolver
    /\ cfg \in Invocations
    /\ \E w \in Workspaces : installed = w.installed /\ packageJson = w.packageJson
    /\ files = [nxJson |-> NxJson(TRUE, Full(1), [libA |-> Full(1)]),
                migrationsJson |-> NoFile]
    /\ Fresh(cfg.opts.from)
    /\ run = 1
    /\ rerun = "first"
    /\ firstResult = [packageUpdates |-> <<>>, migrations |-> <<>>]

\* the CLI calls migrator.migrate(targetPackage, targetVersion)
Migrate ==
    /\ phase = "idle"
    /\ Commit(migrate(St, cfg.targetPackage, cfg.targetVersion))
    /\ UNCHANGED <<cfg, installed, packageJson, run, rerun, firstResult, files>>

\* the event loop runs the next ready continuation
RunMicrotask ==
    /\ phase = "planning"
    /\ microq # <<>>
    /\ Commit(Resume([St EXCEPT !.microq = Tail(@)], Head(microq)))
    /\ UNCHANGED <<cfg, installed, packageJson, run, rerun, firstResult, files>>

\* an outstanding fetch settles; the calls awaiting it continue in the order
\* they joined it. A document that came from the registry is cached under
\* its resolved version too; one that came from the install fallback, after
\* the registry failed, is cached under the requested version only.
FetchComplete(key, viaRegistry) ==
    /\ phase = "planning"
    /\ microq = <<>>
    /\ key \in DOMAIN fetches
    /\ ~fetches[key].settled
    /\ LET alias == IF viaRegistry THEN <<key[1], fetched(key).version>> ELSE key
           done == [settled |-> TRUE, waiters |-> <<>>]
       IN Commit([St EXCEPT
                    !.microq = fetches[key].waiters,
                    !.fetches = [k \in DOMAIN @ \cup {alias} |->
                                   IF k = key \/ k \notin DOMAIN @ THEN done ELSE @[k]]])
    /\ UNCHANGED <<cfg, installed, packageJson, run, rerun, firstResult, files>>

\* the user answers the confirmation prompt a task waits on
PromptAnswer(id) ==
    /\ phase = "planning"
    /\ microq = <<>>
    /\ id \in DOMAIN tasks
    /\ tasks[id].st = "prompt"
    /\ Commit(Enqueue([St EXCEPT !.tasks[id].answer = cfg.shouldApply,
                                 !.tasks[id].st = "prompted"], id))
    /\ UNCHANGED <<cfg, installed, packageJson, run, rerun, firstResult, files>>

Result == [packageUpdates |-> packageUpdates, migrations |-> migrations]

\* an error: its message, and whether the --to guidance was appended
Error(message, guidance) == [message |-> message, guidance |-> guidance]

\* the catch around the fetch of a visit, rethrowing every error as it is
populateCatch_rethrow(e) == e

\* the catch around the fetch of a visit: a message that includes 'No
\* matching version' gets the guidance appended
populateCatch(e) ==
    IF e.message = "No matching version" THEN Error(e.message, TRUE) ELSE e

\* migrate() rejects with error e: the calls still suspended can no longer
\* reach the caller; the Migrator keeps the plan it held
Rejected_migrate(S, e, during) ==
    [S EXCEPT !.tasks = NoTasks, !.microq = <<>>,
              !.fetches = NoTasks, !.nextId = 1, !.phase = "failed",
              !.migrations = <<>>,
              !.log = S.log \cup
                      {[ev |-> "failure", during |-> during, error |-> e,
                        packageJson |-> packageJson, files |-> files]}]

\* an outstanding fetch is rejected with an error of this message: every
\* call awaiting it throws, a visit through its catch, and Promise.all and
\* the awaits above pass the first rejection on to the caller of migrate()
FetchFail(key, message) ==
    /\ phase = "planning"
    /\ microq = <<>>
    /\ key \in DOMAIN fetches
    /\ ~fetches[key].settled
    /\ fetches[key].waiters # <<>>
    /\ LET first == tasks[fetches[key].waiters[1]]
           e == Error(message, FALSE)
       IN Commit(Rejected_migrate(St, IF first.kind = "populate" THEN populateCatch(e) ELSE e,
                                  first.kind))
    /\ UNCHANGED <<cfg, installed, packageJson, run, rerun, firstResult, files>>

\* the confirmation prompt a task waits on is rejected
PromptFail(id) ==
    /\ phase = "planning"
    /\ microq = <<>>
    /\ id \in DOMAIN tasks
    /\ tasks[id].st = "prompt"
    /\ Commit(Rejected_migrate(St, Error("prompt cancelled", FALSE), "prompt"))
    /\ UNCHANGED <<cfg, installed, packageJson, run, rerun, firstResult, files>>

\* the command ends: with migrate()'s result it writes the manifest, the
\* installation details and the migrations file; with its error it throws
Generate ==
    /\ phase \in {"done", "failed"}
    /\ LET w == generateWrites(phase = "failed", packageJson, files, packageUpdates,
                               migrations)
       IN /\ packageJson' = w.packageJson
          /\ files' = w.files
          /\ Commit([St EXCEPT !.phase = IF w.threw THEN "aborted" ELSE "generated"])
    /\ UNCHANGED <<cfg, installed, run, rerun, firstResult>>

\* the same invocation once more: a new Migrator and a new fetcher over the
\* same workspace and registry
RunAgain ==
    /\ phase = "done"
    /\ run < MaxRuns
    /\ Commit([St EXCEPT !.pu = <<>>, !.cv = Absent, !.ov = cfg.opts.from,
                         !.tasks = NoTasks, !.microq = <<>>, !.fetches = NoTasks,
                         !.nextId = 1, !.phase = "idle", !.migrations = <<>>,
                         !.viaShortcut = {}, !.log = {}])
    /\ run' = run + 1
    /\ rerun' = "same"
    /\ firstResult' = IF run = 1 THEN Result ELSE firstResult
    /\ UNCHANGED <<cfg, installed, packageJson, files>>

\* the plan is written to the manifest and the packages it names that are
\* installed are installed at their planned versions; then the same target
\* is planned again, without --from, on the new workspace
ApplyAndRunAgain ==
    /\ phase = "done"
    /\ run < MaxRuns
    /\ packageJson' = updatePackageJson(packageJson, packageUpdates, 1)
    /\ files' = generateWrites(FALSE, packageJson, files, packageUpdates, migrations).files
    /\ installed' = [p \in Pkgs |->
                       IF Truthy(installed[p]) /\ Has(packageUpdates, p)
                       THEN Get(packageUpdates, p).version ELSE installed[p]]
    /\ cfg' = [cfg EXCEPT !.opts.from = Absent]
    /\ Commit([St EXCEPT !.pu = <<>>, !.cv = Absent, !.ov = Absent,
                         !.tasks = NoTasks, !.microq = <<>>, !.fetches = NoTasks,
                         !.nextId = 1, !.phase = "idle", !.migrations = <<>>,
                         !.viaShortcut = {}, !.log = {}])
    /\ run' = run + 1
    /\ rerun' = "applied"
    /\ firstResult' = IF run = 1 THEN Result ELSE firstResult

Next ==
    \/ Migrate
    \/ RunMicrotask
    \/ \E key \in DOMAIN fetches, viaRegistry \in BOOLEAN : FetchComplete(key, viaRegistry)
    \/ \E id \in DOMAIN tasks : PromptAnswer(id)
    \/ \E key \in DOMAIN fetches, message \in {"No matching version", "network"} :
          FetchFail(key, message)
    \/ \E id \in DOMAIN tasks : PromptFail(id)
    \/ Generate
    \/ RunAgain
    \/ ApplyAndRunAgain

vars == <<planVars, fetchVars, runVars, resolverVars>>

Spec == Init /\ [][Next]_vars

(***************************************************************************)
(* The fetcher (createFetcher).  nxMigrateFetcher(name, version) returns   *)
(* a promise; the promise it makes on a cache miss is a chain              *)
(*   Promise.resolve(resolvedVersionCache[key])                            *)
(*     .then(resolve the version)     -- stage "then" / "resolving"        *)
(*     .then(registry view and pack)  -- stage "viewing" / "packing"       *)
(*     .catch(scratch install)        -- stage "installing"                *)
(*     .then(rename schematics)       -- stage "fulfilled" / "rejected"    *)
(* Every registry, tarball and install request is a step of the            *)
(* environment that succeeds or fails.                                     *)
(***************************************************************************)
FNames == {"root", "libA"}
FVersions == {Tag("latest"), Full(MaxTarget)}
FKeys == FNames \X FVersions

Fs == [migrationsCache |-> migrationsCache,
       resolvedVersionCache |-> resolvedVersionCache,
       chains |-> chains, fcalls |-> fcalls, invoked |-> invoked]

\* one more invocation of a primitive with these arguments
Invoke(F, primitive, key) ==
    LET r == [primitive |-> primitive, key |-> key]
    IN [F EXCEPT !.invoked =
           [x \in DOMAIN @ \cup {r} |->
               IF x \in DOMAIN @ THEN (IF x = r THEN @[x] + 1 ELSE @[x]) ELSE 1]]

Invocations_of(primitive, key) ==
    LET r == [primitive |-> primitive, key |-> key]
    IN IF r \in DOMAIN invoked THEN invoked[r] ELSE 0

\* setCache: migrationsCache[packageName + '-' + packageVersion] = migrations
setCache(F, key, id) ==
    [F EXCEPT !.migrationsCache =
        [k \in DOMAIN @ \cup {key} |-> IF k = key THEN id ELSE @[k]]]

\* an error: what failed, and the package and version its message names
Err(kind, key) == [kind |-> kind, key |-> key]
NoErr == Err("none", <<>>)

Chain(key, seen) ==
    [key |-> key,
     \* the chain whose resolution this chain awaits: at first what
     \* resolvedVersionCache[cacheKey] held when fetchMigrations was called
     seen |-> seen,
     stage |-> "then",
     request |-> "none",    \* this chain's own registry resolution
     resolvedVersion |-> NoVersion,
     joined |-> 0,          \* the cached promise the chain returned, if any
     via |-> "none",
     thrown |-> NoErr,      \* the error the .catch of the chain received
     error |-> NoErr]       \* the error the chain is rejected with

\* the .catch of fetchMigrations installing the resolved version
getPackageMigrationsUsingInstall_resolved(F, id) ==
    [Invoke(F, "install", <<F.chains[id].key[1],
                            resolvePackageVersionUsingRegistry(F.chains[id].key[1],
                                                               F.chains[id].key[2])>>)
       EXCEPT !.chains[id].stage = "installing"]

\* the .catch of fetchMigrations: install the requested version in a
\* scratch directory
getPackageMigrationsUsingInstall(F, id) ==
    [Invoke(F, "install", F.chains[id].key) EXCEPT
        !.chains[id].stage = "installing"]

\* an error reaches the .catch of chain id
catch(F, id, err) ==
    [getPackageMigrationsUsingInstall(F, id) EXCEPT !.chains[id].thrown = err]

\* downloadPackageMigrationsFromRegistry whose error is not caught by
\* fetchMigrations
downloadPackageMigrationsFromRegistry_uncaught(F, id, ok) ==
    IF ok
    THEN [F EXCEPT !.chains[id].stage = "fulfilled", !.chains[id].via = "registry"]
    ELSE [F EXCEPT !.chains[id].stage = "rejected",
                   !.chains[id].error =
                       Err("extract", <<F.chains[id].key[1], F.chains[id].resolvedVersion>>)]

\* downloadPackageMigrationsFromRegistry: the tarball is packed and the
\* migrations file extracted and read, or the error naming the package and
\* the version is thrown, into the .catch of fetchMigrations
downloadPackageMigrationsFromRegistry(F, id, ok) ==
    IF ok
    THEN [F EXCEPT !.chains[id].stage = "fulfilled", !.chains[id].via = "registry"]
    ELSE catch(F, id, Err("extract", <<F.chains[id].key[1], F.chains[id].resolvedVersion>>))

\* fetchMigrations, up to its first asynchronous step
fetchMigrations(F, id, key) ==
    [F EXCEPT !.chains =
        Append(@, Chain(key, IF key \in DOMAIN F.resolvedVersionCache
                             THEN F.resolvedVersionCache[key] ELSE 0))]

\* nxMigrateFetcher without the setCache that follows fetchMigrations: the
\* key is cached only once its version is resolved
nxMigrateFetcher_cacheWhenResolved(F, key) ==
    IF key \in DOMAIN F.migrationsCache
    THEN [F EXCEPT !.fcalls = Append(@, [key |-> key,
                                         promise |-> F.migrationsCache[key],
                                         hit |-> TRUE,
                                         pending |-> F.chains[F.migrationsCache[key]].stage
                                                       \notin {"fulfilled", "rejected"}])]
    ELSE LET id == Len(F.chains) + 1
             F1 == fetchMigrations(F, id, key)
         IN [F1 EXCEPT !.fcalls = Append(@, [key |-> key, promise |-> id,
                                             hit |-> FALSE, pending |-> FALSE])]

\* nxMigrateFetcher without the look into migrationsCache
nxMigrateFetcher_noLookup(F, key) ==
    LET id == Len(F.chains) + 1
        F1 == setCache(fetchMigrations(F, id, key), key, id)
    IN [F1 EXCEPT !.fcalls = Append(@, [key |-> key, promise |-> id,
                                        hit |-> FALSE, pending |-> FALSE])]

nxMigrateFetcher(F, key) ==
    IF key \in DOMAIN F.migrationsCache
    THEN [F EXCEPT !.fcalls = Append(@, [key |-> key,
                                         promise |-> F.migrationsCache[key],
                                         hit |-> TRUE,
                                         pending |-> F.chains[F.migrationsCache[key]].stage
                                                       \notin {"fulfilled", "rejected"}])]
    ELSE LET id == Len(F.chains) + 1
             F1 == setCache(fetchMigrations(F, id, key), key, id)
         IN [F1 EXCEPT !.fcalls = Append(@, [key |-> key, promise |-> id,
                                             hit |-> FALSE, pending |-> FALSE])]

\* the first .then of fetchMigrations
resolveVersion(F, id) ==
    LET c == F.chains[id]
    IN IF c.seen # 0
       THEN [F EXCEPT !.chains[id].stage = "resolving"]
       ELSE [Invoke(F, "resolve", c.key) EXCEPT
                !.resolvedVersionCache =
                    [k \in DOMAIN @ \cup {c.key} |-> IF k = c.key THEN id ELSE @[k]],
                !.chains[id].request = "pending",
                !.chains[id].seen = id,
                !.chains[id].stage = "resolving"]

\* the second .then of fetchMigrations without the look into
\* migrationsCache for the resolved version
getPackageMigrations_noReuse(F, id) ==
    LET c == F.chains[id]
        resolvedVersion ==
            resolvePackageVersionUsingRegistry(c.key[1], c.key[2])
        rkey == <<c.key[1], resolvedVersion>>
    IN [Invoke(setCache(F, rkey, id), "view", rkey) EXCEPT
           !.chains[id].resolvedVersion = resolvedVersion,
           !.chains[id].stage = "viewing"]

\* the second .then of fetchMigrations returning the promise cached for the
\* resolved version even when that is the version asked for
getPackageMigrations_joinAny(F, id) ==
    LET c == F.chains[id]
        resolvedVersion ==
            resolvePackageVersionUsingRegistry(c.key[1], c.key[2])
        rkey == <<c.key[1], resolvedVersion>>
    IN IF rkey \in DOMAIN F.migrationsCache
       THEN [F EXCEPT !.chains[id].resolvedVersion = resolvedVersion,
                      !.chains[id].joined = F.migrationsCache[rkey],
                      !.chains[id].stage = "joined"]
       ELSE [Invoke(setCache(F, rkey, id), "view", rkey) EXCEPT
                !.chains[id].resolvedVersion = resolvedVersion,
                !.chains[id].stage = "viewing"]

\* the second .then of fetchMigrations
getPackageMigrations(F, id) ==
    LET c == F.chains[id]
        resolvedVersion ==
            resolvePackageVersionUsingRegistry(c.key[1], c.key[2])
        rkey == <<c.key[1], resolvedVersion>>
    IN IF resolvedVersion # c.key[2] /\ rkey \in DOMAIN F.migrationsCache
       THEN [F EXCEPT !.chains[id].resolvedVersion = resolvedVersion,
                      !.chains[id].joined = F.migrationsCache[rkey],
                      !.chains[id].stage = "joined"]
       ELSE [Invoke(setCache(F, rkey, id), "view", rkey) EXCEPT
                !.chains[id].resolvedVersion = resolvedVersion,
                !.chains[id].stage = "viewing"]

FCommit(F) ==
    /\ migrationsCache' = F.migrationsCache
    /\ resolvedVersionCache' = F.resolvedVersionCache
    /\ chains' = F.chains
    /\ fcalls' = F.fcalls
    /\ invoked' = F.invoked
    /\ UNCHANGED planVars
    /\ UNCHANGED runVars
    /\ UNCHANGED resolverVars

\* the planner variables while the fetcher is modelled on its own
NoPlanner ==
    /\ cfg = <<>>
    /\ installed = <<>>
    /\ packageJson = <<>>
    /\ run = 1
    /\ rerun = "none"
    /\ firstResult = <<>>
    /\ files = <<>>
    /\ Fresh(<<>>)

FetchInit == NoFetcher /\ NoPlanner /\ NoRunner /\ NoResolver

\* a caller asks for the migrations of a package version
Call(key) ==
    /\ Len(fcalls) < MaxCalls
    /\ FCommit(nxMigrateFetcher(Fs, key))

\* the microtask of a chain's first .then
ThenResolve(id) ==
    /\ chains[id].stage = "then"
    /\ FCommit(resolveVersion(Fs, id))

\* the registry answers a version resolution, or fails to
ResolveComplete(id, ok) ==
    /\ chains[id].request = "pending"
    /\ FCommit([Fs EXCEPT !.chains[id].request = IF ok THEN "ok" ELSE "failed"])

\* a chain's resolution has settled: the second .then, or the .catch
Resolved(id) ==
    /\ chains[id].stage = "resolving"
    /\ chains[chains[id].seen].request \in {"ok", "failed"}
    /\ FCommit(IF chains[chains[id].seen].request = "ok"
               THEN getPackageMigrations(Fs, id)
               ELSE catch(Fs, id, Err("resolve", chains[chains[id].seen].key)))

\* the registry view answers: no nx-migrations config, a config without a
\* migrations file, a config with one, or a failure
ViewComplete(id, answer) ==
    /\ chains[id].stage = "viewing"
    /\ FCommit(CASE answer \in {"noConfig", "noMigrations"} ->
                      [Fs EXCEPT !.chains[id].stage = "fulfilled",
                                 !.chains[id].via = "registry"]
                 [] answer = "migrations" ->
                      [Invoke(Fs, "pack", <<chains[id].key[1],
                                            chains[id].resolvedVersion>>)
                          EXCEPT !.chains[id].stage = "packing"]
                 [] OTHER -> catch(Fs, id, Err("view", <<chains[id].key[1],
                                                         chains[id].resolvedVersion>>)))

\* the tarball is downloaded and its migrations file extracted, or not
PackComplete(id, ok) ==
    /\ chains[id].stage = "packing"
    /\ FCommit(downloadPackageMigrationsFromRegistry(Fs, id, ok))

\* the scratch install finishes, or fails
InstallComplete(id, ok) ==
    /\ chains[id].stage = "installing"
    /\ FCommit(IF ok
               THEN [Fs EXCEPT !.chains[id].stage = "fulfilled",
                               !.chains[id].via = "install"]
               ELSE [Fs EXCEPT !.chains[id].stage = "rejected",
                               !.chains[id].error = Err("install", chains[id].key)])

\* the cached promise a chain returned has settled
JoinedSettled(id) ==
    /\ chains[id].stage = "joined"
    /\ chains[chains[id].joined].stage \in {"fulfilled", "rejected"}
    /\ FCommit(IF chains[chains[id].joined].stage = "fulfilled"
               THEN [Fs EXCEPT !.chains[id].stage = "fulfilled",
                               !.chains[id].via = chains[chains[id].joined].via]
               ELSE catch(Fs, id, chains[chains[id].joined].error))

FetchNext ==
    \/ \E key \in FKeys : Call(key)
    \/ \E id \in DOMAIN chains : ThenResolve(id)
    \/ \E id \in DOMAIN chains, ok \in BOOLEAN : ResolveComplete(id, ok)
    \/ \E id \in DOMAIN chains : Resolved(id)
    \/ \E id \in DOMAIN chains,
          answer \in {"noConfig", "noMigrations", "migrations", "failed"} :
            ViewComplete(id, answer)
    \/ \E id \in DOMAIN chains, ok \in BOOLEAN : PackComplete(id, ok)
    \/ \E id \in DOMAIN chains, ok \in BOOLEAN : InstallComplete(id, ok)
    \/ \E id \in DOMAIN chains : JoinedSettled(id)

FetchSpec == FetchInit /\ [][FetchNext]_vars

\* the same with every microtask of a chain run and every registry, tarball
\* and install request answered; callers call when they like
FetchLiveSpec ==
    /\ FetchSpec
    /\ WF_vars(\E id \in DOMAIN chains : ThenResolve(id))
    /\ WF_vars(\E id \in DOMAIN chains, ok \in BOOLEAN : ResolveComplete(id, ok))
    /\ WF_vars(\E id \in DOMAIN chains : Resolved(id))
    /\ WF_vars(\E id \in DOMAIN chains,
                  answer \in {"noConfig", "noMigrations", "migrations", "failed"} :
                    ViewComplete(id, answer))
    /\ WF_vars(\E id \in DOMAIN chains, ok \in BOOLEAN : PackComplete(id, ok))
    /\ WF_vars(\E id \in DOMAIN chains, ok \in BOOLEAN : InstallComplete(id, ok))
    /\ WF_vars(\E id \in DOMAIN chains : JoinedSettled(id))

(***************************************************************************)
(* filterPackageJsonUpdates on its own: one candidate update of package    *)
(* "root", in a workspace, with collected versions, drawn from small sets. *)
(***************************************************************************)
ChildEntries ==
    {Entry("libA", v, always, addTo, ifInst) :
        v \in {Full(2), Full(MaxTarget)}, always \in BOOLEAN,
        addTo \in {"false", "devDependencies"}, ifInst \in {"", "libB"}}

Candidates ==
    {[Update(v, <<e>>, <<>>, FALSE) EXCEPT !.hasPackages = h] :
        v \in {Full(M) : M \in 1..MaxTarget} \cup {Partial(2)},
        e \in ChildEntries, h \in BOOLEAN}

FilterInit ==
    /\ NoFetcher
    /\ NoRunner
    /\ NoResolver
    /\ cfg \in [candidate : Candidates, targetVersion : TargetVersions]
    /\ installed \in {Versions(i) :
                        i \in [{"root"} -> {Full(1), Full(2)}]
                              \cup [{"root", "libB"} -> {Full(1), Full(2)}]}
    /\ packageJson \in {[dependencies |-> Versions(d), devDependencies |-> Absent] :
                           d \in {NoOverride, [libA |-> Full(1)]}}
    /\ collectedVersions \in {Versions(c) :
                                c \in {NoOverride} \cup [{"libA"} -> {Full(2), Full(MaxTarget)}]}
    /\ installedPkgVersionOverrides = Absent
    /\ packageUpdates = <<>>
    /\ tasks = NoTasks
    /\ microq = <<>>
    /\ fetches = NoTasks
    /\ nextId = 1
    /\ phase = "idle"
    /\ migrations = <<>>
    /\ viaShortcut = {}
    /\ log = {}
    /\ files = <<>>
    /\ run = 1
    /\ rerun = "none"
    /\ firstResult = <<>>

\* the planner filters the updates of the document of "root"
Filter ==
    /\ phase = "idle"
    /\ phase' = "filtered"
    /\ log' = {[ev |-> "filter",
                kept |-> filterPackageJsonUpdates(St, <<cfg.candidate>>, "root",
                                                  cfg.targetVersion)]}
    /\ UNCHANGED <<cfg, installed, packageJson, installedPkgVersionOverrides,
                   packageUpdates, collectedVersions, tasks, microq, fetches, nextId,
                   migrations, run, rerun, firstResult, viaShortcut, files>>
    /\ UNCHANGED fetchVars
    /\ UNCHANGED runVars
    /\ UNCHANGED resolverVars

FilterNext == Filter

FilterSpec == FilterInit /\ [][FilterNext]_vars

(***************************************************************************)
(* The end of the generate command on its own: a manifest, an nx.json and  *)
(* what migrate() returned, drawn from small sets, for a workspace of nx,  *)
(* @nrwl/workspace and one plugin.                                         *)
(***************************************************************************)
GPkgs == {"nx", "@nrwl/workspace", "libA"}
V156 == Ver(15, 6, 0, 0)
V158 == Ver(15, 8, 0, 0)

\* name -> version over GPkgs
GVersions(vs) == [p \in GPkgs |-> IF p \in DOMAIN vs THEN vs[p] ELSE NoVersion]

GManifests ==
    {[dependencies |-> GVersions(d), devDependencies |-> GVersions(v)] :
        d \in {<<>>} \cup [{"libA"} -> {Full(1)}]
                     \cup [{"@nrwl/workspace"} -> {V156}]
                     \cup [{"@nrwl/workspace", "libA"} -> {V156}],
        v \in {<<>>} \cup [{"nx"} -> {V156, V158}]
                     \cup [{"@nrwl/workspace"} -> {V156, SplitConfigurationVersion}]
                     \cup [{"nx", "libA"} -> {V156}]}

\* the plans: each package absent, or present at one of its versions
GPlanEntries(p) ==
    {<<>>} \cup
    CASE p = "nx" -> {<<PackageUpdate("nx", V158, "false")>>}
      [] p = "@nrwl/workspace" ->
            {<<PackageUpdate(p, v, "false")>> : v \in {V156, SplitConfigurationVersion, V158}}
      [] OTHER ->
            {<<PackageUpdate(p, Full(2), a)>> : a \in {"false", "dependencies", "devDependencies"}}
GPlans == {a \o b \o c : a \in GPlanEntries("nx"), b \in GPlanEntries("@nrwl/workspace"),
                         c \in GPlanEntries("libA")}

GMigrations ==
    {<<>>, <<[package |-> "libA", name |-> "m1", version |-> Full(2), requires |-> <<>>]>>}

GenerateInit ==
    /\ NoFetcher
    /\ NoRunner
    /\ NoResolver
    /\ cfg = <<>>
    /\ installed \in {GVersions(i) : i \in [{"@nrwl/workspace"} -> {V156, V158}]}
    /\ packageJson \in GManifests
    /\ files \in [nxJson : {NxJson(FALSE, NoVersion, <<>>),
                            NxJson(TRUE, V156, [libA |-> Full(1)])},
                  migrationsJson : {NoFile}]
    /\ packageUpdates \in GPlans
    /\ migrations \in GMigrations
    /\ phase = "done"
    /\ installedPkgVersionOverrides = Absent
    /\ collectedVersions = Absent
    /\ tasks = NoTasks
    /\ microq = <<>>
    /\ fetches = NoTasks
    /\ nextId = 1
    /\ viaShortcut = {}
    /\ log = {[ev |-> "before", packageJson |-> packageJson, files |-> files]}
    /\ run = 1
    /\ rerun = "none"
    /\ firstResult = <<>>

GenerateNext == Generate

GenerateSpec == GenerateInit /\ [][GenerateNext]_vars

(***************************************************************************)
(* The runner: runMigrations() and executeMigrations().  What a migration  *)
(* does when it is run (throw, report no changes, report changes; what it  *)
(* wrote to package.json before) and what git answers to a commit are      *)
(* steps of the environment.                                               *)
(***************************************************************************)
\* the migrations.json files: the first n of a list that alternates the
\* two kinds of migration
MigrationEntry(i) ==
    [package |-> "libA", name |-> i, cli |-> IF i % 2 = 1 THEN "nx" ELSE "angular"]
MigrationFiles == {[i \in 1..n |-> MigrationEntry(i)] : n \in 0..MaxMigrations}

\* package.json as the runner sees it
RunnerManifest(dependency, scripts) ==
    [dependencies |-> [libA |-> dependency], devDependencies |-> [nx |-> Full(1)],
     scripts |-> scripts]

\* JSON.stringify([dependencies, devDependencies]), with the whole manifest
\* serialized instead
getStringifiedPackageJsonDeps_whole(json) == json

\* JSON.stringify([dependencies, devDependencies])
getStringifiedPackageJsonDeps(json) == <<json.dependencies, json.devDependencies>>

\* what a migration wrote to package.json
Written(json, effect) ==
    CASE effect = "dependency" ->
            [json EXCEPT !.dependencies.libA = IF @ = Full(1) THEN Full(2) ELSE Full(1)]
      [] effect = "scripts" -> [json EXCEPT !.scripts = ~@]
      [] OTHER -> json

Did(R, e) == [R EXCEPT !.trace = Append(@, e)]

runInstall(R, when) == Did(R, [ev |-> "install", when |-> when])

\* the catch of the loop body, swallowing the error
migrationThrew_continue(R, effect) ==
    [Did(R, [ev |-> "failed", i |-> R.i, effect |-> effect]) EXCEPT
        !.packageJson = Written(@, effect),
        !.i = @ + 1,
        !.pc = "loop"]

\* the catch of the loop body: a titled error, and the error thrown again
migrationThrew(R, effect) ==
    [Did(R, [ev |-> "failed", i |-> R.i, effect |-> effect]) EXCEPT
        !.packageJson = Written(@, effect),
        !.pc = "thrown",
        !.error = Err("migration", R.i)]

\* the commit after a migration, its error thrown on
commitAfter_rethrow(R, result) ==
    IF ~R.opts.shouldCreateCommits THEN R
    ELSE IF result = "error"
    THEN [Did(R, [ev |-> "commit", i |-> R.i, result |-> result]) EXCEPT
             !.pc = "thrown", !.error = Err("commit", R.i)]
    ELSE Did(R, [ev |-> "commit", i |-> R.i, result |-> result])

\* the commit after a migration that made changes: commitChanges() returns
\* a sha, or null, or throws, and each of them is logged
commitAfter(R, result) ==
    IF ~R.opts.shouldCreateCommits THEN R
    ELSE Did(R, [ev |-> "commit", i |-> R.i, result |-> result])

\* a migration reported no changes
madeNoChanges(R) ==
    [Did(R, [ev |-> "end", i |-> R.i, changes |-> FALSE, effect |-> "none"]) EXCEPT
        !.migrationsWithNoChanges = Append(@, R.list[R.i]),
        !.i = @ + 1,
        !.pc = "loop"]

\* a migration reported changes
madeChanges(R, effect, result) ==
    LET R1 == [Did(R, [ev |-> "end", i |-> R.i, changes |-> TRUE, effect |-> effect])
                 EXCEPT !.packageJson = Written(@, effect)]
        R2 == commitAfter(R1, result)
    IN IF R2.pc = "thrown" THEN R2 ELSE [R2 EXCEPT !.i = @ + 1, !.pc = "loop"]

\* executeMigrations up to its loop
executeMigrations(R) ==
    [R EXCEPT !.depsBeforeMigrations = getStringifiedPackageJsonDeps(R.packageJson),
              !.i = 1,
              !.pc = "loop"]

\* executeMigrations after its loop
executeMigrationsEnd(R) ==
    LET depsAfterMigrations == getStringifiedPackageJsonDeps(R.packageJson)
        R1 == IF R.depsBeforeMigrations # depsAfterMigrations
              THEN runInstall(R, "after") ELSE R
    IN [R1 EXCEPT !.pc = "returned", !.result = R.migrationsWithNoChanges]

\* runMigrations up to the loop of executeMigrations
runMigrations(R) ==
    LET R1 == IF ~R.opts.skipInstall THEN runInstall(R, "before") ELSE R
    IN IF R.opts.ifExists /\ ~R.opts.migrationsExists
       THEN [R1 EXCEPT !.pc = "returned"]
       ELSE IF ~R.opts.ifExists /\ ~R.opts.migrationsExists
       THEN [R1 EXCEPT !.pc = "thrown", !.error = Err("no file", 0)]
       ELSE executeMigrations(R1)

RunInit ==
    /\ NoFetcher
    /\ NoPlanner
    /\ NoResolver
    /\ runner \in [opts : [ifExists : BOOLEAN, migrationsExists : BOOLEAN,
                           skipInstall : BOOLEAN, shouldCreateCommits : BOOLEAN],
                   list : MigrationFiles,
                   pc : {"called"},
                   i : {0},
                   packageJson : {RunnerManifest(Full(1), FALSE)},
                   depsBeforeMigrations : {<<>>},
                   migrationsWithNoChanges : {<<>>},
                   trace : {<<>>},
                   result : {<<>>},
                   error : {NoErr}]

RunFrame == UNCHANGED planVars /\ UNCHANGED fetchVars /\ UNCHANGED resolverVars

\* runMigrations() is called
RunMigrations ==
    /\ runner.pc = "called"
    /\ runner' = runMigrations(runner)
    /\ RunFrame

\* the loop calls the next migration and awaits it
StartMigration ==
    /\ runner.pc = "loop"
    /\ runner.i <= Len(runner.list)
    /\ runner' = [Did(runner, [ev |-> "start", i |-> runner.i]) EXCEPT !.pc = "running"]
    /\ RunFrame

\* the migration throws, having written or not
MigrationThrows(effect) ==
    /\ runner.pc = "running"
    /\ runner' = migrationThrew(runner, effect)
    /\ RunFrame

\* the migration returns without changes
MigrationMadeNoChanges ==
    /\ runner.pc = "running"
    /\ runner' = madeNoChanges(runner)
    /\ RunFrame

\* the migration returns with changes, which may include package.json;
\* with commits requested git answers
MigrationMadeChanges(effect, result) ==
    /\ runner.pc = "running"
    /\ runner.opts.shouldCreateCommits \/ result = "sha"
    /\ runner' = madeChanges(runner, effect, result)
    /\ RunFrame

\* the loop has ended
ExecuteMigrationsEnd ==
    /\ runner.pc = "loop"
    /\ runner.i > Len(runner.list)
    /\ runner' = executeMigrationsEnd(runner)
    /\ RunFrame

RunNext ==
    \/ RunMigrations
    \/ StartMigration
    \/ \E effect \in {"none", "dependency", "scripts"} : MigrationThrows(effect)
    \/ MigrationMadeNoChanges
    \/ \E effect \in {"none", "dependency", "scripts"}, result \in {"sha", "null", "error"} :
          MigrationMadeChanges(effect, result)
    \/ ExecuteMigrationsEnd

RunSpec == RunInit /\ [][RunNext]_vars

(***************************************************************************)
(* parseTargetPackageAndVersion on its own.  The positional argument is    *)
(* kept as what its text is made of: the text before the last '@' (name,   *)
(* "" when there is none or when the only '@' is the first character),     *)
(* whether there is an '@' after a name, and the text after it (version);  *)
(* without such an '@' the whole text is either a name or a version.       *)
(***************************************************************************)
Arg(name, at, version) == [name |-> name, at |-> at, version |-> version]

ArgNames == {"mypkg", "@nrwl/workspace"}
ArgVersions ==
    {Tag("latest"), Tag("next")} \cup
    {v \in {Ver(M, m, p, e) : M \in {13, 14, 15}, m \in {-1, 0, 1},
                              p \in {-1, 0, 1}, e \in {0, 1, 2}} :
        v.pat >= 0 => v.min >= 0}

Args ==
    {Arg("", FALSE, NoVersion)}                                 \* ""
    \cup {Arg(n, FALSE, NoVersion) : n \in ArgNames}            \* "mypkg"
    \cup {Arg("", FALSE, v) : v \in ArgVersions}                \* "15", "latest"
    \cup {Arg(n, TRUE, v) : n \in ArgNames, v \in ArgVersions \cup {NoVersion}}

\* '14.0.0-beta.0'
FirstNxVersion == Ver(14, 0, 0, 1)

\* args.match(/^\d+(?:\.\d+)?(?:\.\d+)?$/)
matchesDigits(v) == v.tag = "" /\ v.pre = 0 /\ (v.pat >= 0 => v.min >= 0)

\* the target package of a version given alone, with the first version of
\* nx counted to @nrwl/workspace
packageOfVersion_lte(v, targetVersion) ==
    IF v.tag \notin {"latest", "next"} /\ SemverLte(targetVersion, FirstNxVersion)
    THEN "@nrwl/workspace" ELSE "nx"

\* the target package of a version given alone
packageOfVersion(v, targetVersion) ==
    IF v.tag \notin {"latest", "next"} /\ SemverLt(targetVersion, FirstNxVersion)
    THEN "@nrwl/workspace" ELSE "nx"

Parsed(targetPackage, targetVersion) ==
    [threw |-> FALSE, targetPackage |-> targetPackage, targetVersion |-> targetVersion]
ParseError == [threw |-> TRUE, targetPackage |-> "", targetVersion |-> NoVersion]

parseTargetPackageAndVersion(args) ==
    IF args.name = "" /\ ~args.at /\ ~Truthy(args.version) THEN ParseError
    ELSE IF args.at
    THEN \* an '@' after a name
         IF ~Truthy(args.version) THEN ParseError
         ELSE Parsed(args.name, normalizeVersionWithTagCheck(args.version))
    ELSE IF args.name # ""
    THEN \* a name, with a leading '@' or without any
         Parsed(args.name, Tag("latest"))
    ELSE IF \/ args.version \in {Tag("latest"), Tag("next")}
            \/ Valid(args.version)
            \/ matchesDigits(args.version)
    THEN LET targetVersion == normalizeVersionWithTagCheck(args.version)
         IN Parsed(packageOfVersion(args.version, targetVersion), targetVersion)
    ELSE \* a text like "14-beta.1" is taken for a package name
         Parsed(args.version, Tag("latest"))

ParseInit ==
    /\ NoFetcher
    /\ NoRunner
    /\ NoResolver
    /\ cfg \in [args : Args]
    /\ installed = <<>>
    /\ packageJson = <<>>
    /\ files = <<>>
    /\ run = 1
    /\ rerun = "none"
    /\ firstResult = <<>>
    /\ Fresh(<<>>)

\* the command line is parsed
Parse ==
    /\ phase = "idle"
    /\ Commit([St EXCEPT !.phase = "parsed",
                         !.log = {[ev |-> "parsed",
                                   result |-> parseTargetPackageAndVersion(cfg.args)]}])
    /\ UNCHANGED <<cfg, installed, packageJson, run, rerun, firstResult, files>>

ParseNext == Parse

ParseSpec == ParseInit /\ [][ParseNext]_vars

(***************************************************************************)
(* createInstalledPackageVersionsResolver on its own: one resolver with    *)
(* its cache, asked for packages with and without overrides.  `installed`  *)
(* is what readModulePackageJson finds under the workspace root.           *)
(***************************************************************************)
RNames == {"nx", "@nrwl/workspace", "libA"}
RDisks == [RNames -> {NoVersion, Full(1), Full(2)}]
ROverrides ==
    {[p \in ps |-> Full(3)] : ps \in SUBSET RNames}
    \cup {[p \in {"@nrwl/workspace"} |-> Tag("latest")]}

Looked(value, cache) == [value |-> value, cache |-> cache]

RECURSIVE getInstalledPackageVersionCached(_, _, _)

\* the catch of the resolver, without the retry under the legacy name
readFailed_null(cache, packageName, overrides) == Looked(NoVersion, cache)

\* the catch of the resolver: readModulePackageJson has thrown
readFailed(cache, packageName, overrides) ==
    IF packageName = "nx"
    THEN getInstalledPackageVersionCached(cache, "@nrwl/workspace", overrides)
    ELSE Looked(NoVersion, cache)

\* getInstalledPackageVersion of the resolver, with the cache it reads and
\* writes
getInstalledPackageVersionCached(cache, packageName, overrides) ==
    IF Truthy(Lookup(overrides, packageName))
    THEN Looked(Lookup(overrides, packageName), cache)
    ELSE IF Truthy(cache[packageName]) THEN Looked(cache[packageName], cache)
    ELSE IF Truthy(OnDisk(packageName))
    THEN Looked(OnDisk(packageName),
                [cache EXCEPT ![packageName] = OnDisk(packageName)])
    ELSE readFailed(cache, packageName, overrides)

ResolveInit ==
    /\ NoFetcher
    /\ NoRunner
    /\ cfg = <<>>
    /\ installed \in RDisks
    /\ packageJson = <<>>
    /\ files = <<>>
    /\ run = 1
    /\ rerun = "none"
    /\ firstResult = <<>>
    /\ Fresh(<<>>)
    /\ resolver = [cache |-> [p \in RNames |-> NoVersion], calls |-> <<>>]

\* the resolver is asked for a package
GetInstalledPackageVersion(packageName, overrides) ==
    /\ Len(resolver.calls) < MaxLookups
    /\ LET r == getInstalledPackageVersionCached(resolver.cache, packageName, overrides)
       IN resolver' = [cache |-> r.cache,
                       calls |-> Append(resolver.calls,
                                        [packageName |-> packageName,
                                         overrides |-> overrides,
                                         result |-> r.value])]
    /\ UNCHANGED planVars
    /\ UNCHANGED fetchVars
    /\ UNCHANGED runVars

ResolveNext ==
    \E packageName \in RNames, overrides \in ROverrides :
        GetInstalledPackageVersion(packageName, overrides)

ResolveSpec == ResolveInit /\ [][ResolveNext]_vars

(***************************************************************************)
(* The planner on documents of root that hold several packageJsonUpdates,  *)
(* some requiring what another update of the same document brings; on      *)
(* children whose updates have requirements; on package groups with "*"    *)
(* when --from names the parent, or the parent and a child.                *)
(***************************************************************************)
\* libA@2.0.0, asked about in interactive mode
BringsLibA == Update(Full(2), <<E("libA", Full(2))>>, <<>>, TRUE)
\* libB@2.0.0 when libA >= 2.0.0, asked about in interactive mode
BringsLibBAfterLibA ==
    Update(Full(2), <<E("libB", Full(2))>>, <<Req("libA", ">=", Full(2))>>, TRUE)
\* libA@3.0.0 when libB >= 2.0.0
BringsLibAAfterLibB ==
    Update(Full(2), <<E("libA", Full(3))>>, <<Req("libB", ">=", Full(2))>>, FALSE)

ItemRootDocs ==
    {Doc(<<>>, updates, <<Gen("r1", Full(2), <<>>)>>) :
        updates \in {<<BringsLibA, BringsLibBAfterLibA>>,
                     <<BringsLibBAfterLibA, BringsLibA, BringsLibBAfterLibA>>,
                     <<BringsLibA, BringsLibBAfterLibA, BringsLibAAfterLibB>>,
                     <<BringsLibAAfterLibB, BringsLibBAfterLibA, BringsLibA>>}}

\* root brings libA and libB at 2.0.0, in this order, and declares them in
\* its package group in the order of `group`
GroupedRootDocs ==
    {Doc(group, <<Update(Full(2), <<E("libA", Full(2)), E("libB", Full(2))>>, <<>>, FALSE)>>,
         <<Gen("r1", Full(2), <<>>)>>) :
        group \in {<<GroupItem("libB", Full(2)), GroupItem("libA", Full(2))>>,
                   <<GroupItem("libA", Full(2)), GroupItem("libB", Full(2))>>}}
\* libA brings libB@3.0.0 once libA itself is at 3.0.0
LibARequiring ==
    Doc(<<>>, <<Update(Full(2), <<E("libB", Full(3))>>, <<Req("libA", ">=", Full(3))>>, FALSE)>>,
        <<Gen("m1", Full(2), <<>>)>>)
\* libB brings libA@3.0.0 once root is at 2.0.0
LibBRequiring ==
    Doc(<<>>, <<Update(Full(2), <<E("libA", Full(3))>>, <<Req("root", ">=", Full(2))>>, FALSE)>>,
        <<Gen("m1", Full(2), <<>>)>>)

\* root declares libA at its own version and libB at 2.0.0, and libA
\* declares libB at its own version
StarGroupDocs ==
    {[root |-> Doc(<<GroupItem("libA", Tag("*")), GroupItem("libB", Full(2))>>, <<>>,
                   <<Gen("r1", Full(2), <<>>)>>),
      libA |-> Doc(<<GroupItem("libB", Tag("*"))>>, <<>>, <<Gen("m1", Full(2), <<>>)>>),
      libB |-> Doc(<<>>, <<>>, <<Gen("m1", Full(2), <<>>)>>)]}

\* root and libA declare themselves, each other and libB, and libB declares
\* root at the highest version published, and libA
CyclicGroupDocs ==
    {[root |-> Doc(<<GroupItem("root", Tag("*")), GroupItem("libA", Tag("*")),
                     GroupItem("libB", Tag("*"))>>, <<>>, <<Gen("r1", Full(2), <<>>)>>),
      libA |-> Doc(<<GroupItem("libA", Tag("*")), GroupItem("root", Tag("*")),
                     GroupItem("libB", Tag("*"))>>, <<>>, <<Gen("m1", Full(2), <<>>)>>),
      libB |-> Doc(<<GroupItem("root", Full(MaxTarget)), GroupItem("libA", Tag("*"))>>,
                   <<>>, <<Gen("m1", Full(2), <<>>)>>)]}

ItemDocs ==
    {[root |-> dr, libA |-> Doc(<<>>, <<>>, <<Gen("m1", Full(2), <<>>)>>),
      libB |-> Doc(<<>>, <<>>, <<Gen("m1", Full(2), <<>>)>>)] : dr \in ItemRootDocs}
    \cup StarGroupDocs
    \cup CyclicGroupDocs
    \cup {[root |-> dr, libA |-> LibARequiring, libB |-> LibBRequiring] :
             dr \in GroupedRootDocs}

\* --from: nothing, root alone, root and libB
ItemOverrides ==
    {NoOverride, [root |-> Ver(1, 5, 0, 0)],
     [root |-> Ver(1, 5, 0, 0), libB |-> Ver(1, 2, 0, 0)]}

ItemInvocations ==
    {inv \in
       {[docs |-> docs,
         opts |-> Options(from, NoOverride, i, FALSE),
         targetPackage |-> "root", targetVersion |-> t, shouldApply |-> c] :
           docs \in ItemDocs, from \in ItemOverrides, i \in BOOLEAN,
           t \in TargetVersions, c \in BOOLEAN} :
       /\ inv.opts.interactive \/ inv.shouldApply
       /\ inv.opts.from # Versions(NoOverride) => inv.docs \in StarGroupDocs}

ItemInit ==
    /\ NoFetcher
    /\ NoRunner
    /\ NoResolver
    /\ cfg \in ItemInvocations
    /\ \E w \in Workspaces : installed = w.installed /\ packageJson = w.packageJson
    /\ files = [nxJson |-> NxJson(TRUE, Full(1), [libA |-> Full(1)]),
                migrationsJson |-> NoFile]
    /\ Fresh(cfg.opts.from)
    /\ run = 1
    /\ rerun = "first"
    /\ firstResult = [packageUpdates |-> <<>>, migrations |-> <<>>]

ItemSpec == ItemInit /\ [][Next]_vars

\* RunMicrotask is enabled exactly when a continuation is ready: Resume is
\* total and every step of it changes the state
MicrotaskReady == phase = "planning" /\ microq # <<>>

\* the same with the event loop running every ready continuation, every
\* outstanding fetch settling and every prompt being answered. The first
\* condition is WF_vars(RunMicrotask) with its enabling condition written out.
ItemLiveSpec ==
    /\ ItemSpec
    /\ ([]<>~MicrotaskReady \/ []<><<RunMicrotask>>_vars)
    /\ WF_vars(\E key \in DOMAIN fetches, viaRegistry \in BOOLEAN :
                  FetchComplete(key, viaRegistry))
    /\ WF_vars(\E id \in DOMAIN tasks : PromptAnswer(id))

(***************************************************************************)
(* Properties of the planner.                                              *)
(***************************************************************************)
Planned(p) == Get(packageUpdates, p).version
InstalledNow(p) == getInstalledPackageVersion(p, installedPkgVersionOverrides)
Done == phase = "done"

\* C1: during a planning run, under every interleaving of the sibling
\* recursions, no entry of packageUpdates is removed, no entry's version
\* decreases, and an entry is replaced only by one of strictly greater version.
C1_PackageUpdatesMonotone ==
    [][run' = run =>
         \A i \in 1..Len(packageUpdates) :
            LET old == packageUpdates[i]
            IN /\ Has(packageUpdates', old.name)
               /\ ~gt(old.version, Get(packageUpdates', old.name).version)
               /\ Get(packageUpdates', old.name) # old =>
                     gt(Get(packageUpdates', old.name).version, old.version)]_vars

\* a package of the plan has been fetched at two different versions: it was
\* reached twice, by two recursions
C1_Witness ==
    \E p \in Pkgs :
       /\ Has(packageUpdates, p)
       /\ \E k1, k2 \in DOMAIN fetches :
             /\ k1[1] = p /\ k2[1] = p
             /\ fetches[k1].settled /\ fetches[k2].settled
             /\ gt(fetched(k1).version, fetched(k2).version)
             /\ Planned(p) = fetched(k1).version

\* C2: every migration returned by migrate lies in the window
\* installed(p) < version <= planned(p) of its package, with and without
\* excludeAppliedMigrations.
C2_MigrationsInWindow ==
    Done =>
      \A i \in 1..Len(migrations) :
         LET m == migrations[i]
         IN /\ Has(packageUpdates, m.package)
            /\ Truthy(InstalledNow(m.package))
            /\ gt(m.version, InstalledNow(m.package))
            /\ lte(m.version, Planned(m.package))

\* migrations were returned under excludeAppliedMigrations while a
\* generator of a planned package at the installed version stayed out
C2_Witness ==
    /\ Done
    /\ cfg.opts.excludeAppliedMigrations
    /\ migrations # <<>>
    /\ \E p \in Pkgs :
          /\ Has(packageUpdates, p)
          /\ \E i \in 1..Len(cfg.docs[p].generators) :
                cfg.docs[p].generators[i].version = InstalledNow(p)

\* a requires object is satisfied by the installed or the planned versions
RequiresHold(requires) ==
    \A i \in 1..Len(requires) :
       \/ satisfies(InstalledNow(requires[i].name), requires[i].range)
       \/ /\ Has(packageUpdates, requires[i].name)
          /\ satisfies(Planned(requires[i].name), requires[i].range)

\* C3: every migration returned by migrate has its requires satisfied by
\* the installed or planned version of each required package, at the state
\* Phase 1 ended in, with and without excludeAppliedMigrations.
C3_MigrationRequiresHold ==
    Done => \A i \in 1..Len(migrations) : RequiresHold(migrations[i].requires)

\* under excludeAppliedMigrations migrations were returned, and a generator
\* inside the version window stayed out because its requires fails
C3_Witness ==
    /\ Done
    /\ cfg.opts.excludeAppliedMigrations
    /\ migrations # <<>>
    /\ \E p \in Pkgs :
          /\ Has(packageUpdates, p)
          /\ Truthy(InstalledNow(p))
          /\ \E i \in 1..Len(cfg.docs[p].generators) :
                LET g == cfg.docs[p].generators[i]
                IN /\ gt(g.version, InstalledNow(p))
                   /\ lte(g.version, Planned(p))
                   /\ ~RequiresHold(g.requires)
                   /\ \A j \in 1..Len(migrations) :
                         ~(migrations[j].package = p /\ migrations[j].name = g.name)

\* C4: every installed package of the returned plan is planned at a
\* version greater than or equal to its installed version.
C4_PlannedAtLeastInstalled ==
    Done =>
      \A i \in 1..Len(packageUpdates) :
         LET p == packageUpdates[i].name
         IN Truthy(InstalledNow(p)) => ~gt(InstalledNow(p), packageUpdates[i].version)

\* C5: the returned migrations list holds no two entries with the same
\* (package, name) pair.
C5_NoDuplicateMigrations ==
    Done =>
      \A i, j \in 1..Len(migrations) :
         (migrations[i].package = migrations[j].package
            /\ migrations[i].name = migrations[j].name) => i = j

\* the list holds two migrations of one package and two migrations of one
\* name, and a package of the plan was reached at two versions
C5_Witness ==
    /\ Done
    /\ \E i, j \in 1..Len(migrations) :
          i # j /\ migrations[i].package = migrations[j].package
    /\ \E i, j \in 1..Len(migrations) :
          i # j /\ migrations[i].name = migrations[j].name
    /\ \E k1, k2 \in DOMAIN fetches :
          k1[1] = k2[1] /\ fetched(k1).version # fetched(k2).version

Entries(m) == {m[i] : i \in 1..Len(m)}

\* C6: a second run of migrate on the same inputs returns the same
\* packageUpdates map and the same migrations list as the first, whatever
\* order the outstanding fetches complete in.
C6_Deterministic ==
    (Done /\ rerun = "same") =>
       /\ Entries(packageUpdates) = Entries(firstResult.packageUpdates)
       /\ migrations = firstResult.migrations

\* C9: once the installed packages of the plan are at their planned
\* versions, planning the same target again returns no migrations and a plan
\* in which every installed package is at its installed version.
C9_ReplanIsEmpty ==
    (Done /\ rerun = "applied") =>
       /\ migrations = <<>>
       /\ \A i \in 1..Len(packageUpdates) :
             LET p == packageUpdates[i].name
             IN Truthy(InstalledNow(p)) => packageUpdates[i].version = InstalledNow(p)

\* C10: in every state, a plan entry that the not-installed shortcut did
\* not write has a collectedVersions entry at least as high.
C10_CollectedCoversPlan ==
    \A i \in 1..Len(packageUpdates) :
       LET p == packageUpdates[i].name
       IN p \notin viaShortcut =>
            /\ Truthy(collectedVersions[p])
            /\ ~gt(packageUpdates[i].version, collectedVersions[p])

\* the plan holds an entry of each kind, and a package was processed at
\* two versions
C10_Witness ==
    /\ \E i \in 1..Len(packageUpdates) : packageUpdates[i].name \in viaShortcut
    /\ \E i \in 1..Len(packageUpdates) : packageUpdates[i].name \notin viaShortcut
    /\ \E k1, k2 \in DOMAIN fetches :
          /\ k1[1] = k2[1] /\ fetched(k1).version # fetched(k2).version
          /\ fetches[k1].settled /\ fetches[k2].settled

(***************************************************************************)
(* Properties of the fetcher.                                              *)
(***************************************************************************)
FailedFirst(key) ==
    \E id \in DOMAIN chains : chains[id].key = key /\ chains[id].request = "failed"

\* C7: the registry version resolution is invoked at most once for each
\* (name, requested version), also when the first attempt failed and the
\* pair is asked for again.
C7_ResolveOncePerKey ==
    \A key \in FKeys : Invocations_of("resolve", key) <= 1

\* the resolution of a pair failed, and the pair has been asked for again
C7_Witness ==
    \E i, j \in DOMAIN fcalls :
        /\ i < j
        /\ fcalls[i].key = fcalls[j].key
        /\ FailedFirst(fcalls[j].key)
        /\ chains[fcalls[i].promise].stage \in {"fulfilled", "rejected"}
        /\ Invocations_of("resolve", fcalls[j].key) = 1

\* C8: a call for a name and version whose earlier call is still in flight
\* gets the promise of that call, and no chain other than that one exists
\* for the pair, so that no second resolution, view, download or install
\* is started for it.
C8_JoinsInFlight ==
    \A i, j \in DOMAIN fcalls :
        i < j /\ fcalls[i].key = fcalls[j].key =>
            /\ fcalls[j].promise = fcalls[i].promise
            /\ Cardinality({id \in DOMAIN chains : chains[id].key = fcalls[j].key}) <= 1
            /\ \A primitive \in {"resolve", "install"} :
                   Invocations_of(primitive, fcalls[j].key) <= 1

\* a second call found the first one's promise still pending
C8_Witness ==
    \E j \in DOMAIN fcalls :
        /\ fcalls[j].hit /\ fcalls[j].pending
        /\ \E i \in 1..(j - 1) : fcalls[i].key = fcalls[j].key /\ ~fcalls[i].hit

(***************************************************************************)
(* Properties of the planner's steps, read from the calls observed.        *)
(***************************************************************************)
Events(kind) == {e \in log : e.ev = kind}

\* requirement i of an observed decision failed on every version the
\* planner could have judged it by
FailsAll(d, i) ==
    \A v \in {d.seen[i].installed, d.seen[i].planned, cleanSemver(d.seen[i].admitted)} :
        ~(Truthy(v) /\ satisfies(v, d.requires[i].range))

Rejected(d) == \E i \in 1..Len(d.requires) : FailsAll(d, i)

\* C11: an update with a requirement that the installed version, the
\* planned version and the version admitted earlier in the same deferred
\* item all fail is rejected; what is recursed into comes from an update of
\* the item that was not rejected, and every plan entry but the target's
\* comes from an entry that was recursed into or applied directly.
C11_RejectedUpdateAddsNothing ==
    /\ \A d \in Events("decision") : Rejected(d) => ~d.met
    /\ \A r \in Events("recurse") :
          \E d \in Events("decision") :
             /\ d.package = r.package /\ d.met /\ ~Rejected(d)
             /\ \E i \in 1..Len(d.packages) : d.packages[i] = r.entry
    /\ \A i \in 1..Len(packageUpdates) :
          \/ packageUpdates[i].name = cfg.targetPackage
          \/ \E e \in Events("recurse") \cup Events("apply") :
                e.entry.name = packageUpdates[i].name

\* a run is over in which an update was rejected, and a package the
\* rejected update names is not in the plan at the version it names
C11_Witness ==
    /\ Done
    /\ \E d \in Events("decision") :
          /\ Rejected(d)
          /\ \E i \in 1..Len(d.packages) :
                \/ ~Has(packageUpdates, d.packages[i].name)
                \/ Planned(d.packages[i].name) # d.packages[i].version

(***************************************************************************)
(* Properties of the migrations list and the requirements.                 *)
(***************************************************************************)
Emitted(p, g) ==
    \E j \in 1..Len(migrations) :
        migrations[j].package = p /\ migrations[j].name = g.name

\* generator g of planned package p lies in the window of p and requires a
\* package that is installed outside the required range and is not planned
InWindowPeerOutOfRange(p, g) ==
    /\ Has(packageUpdates, p)
    /\ Truthy(InstalledNow(p))
    /\ Truthy(g.version)
    /\ gt(g.version, InstalledNow(p))
    /\ lte(g.version, Planned(p))
    /\ \E i \in 1..Len(g.requires) :
          LET peer == g.requires[i].name
          IN /\ Truthy(InstalledNow(peer))
             /\ ~satisfies(InstalledNow(peer), g.requires[i].range)
             /\ ~Has(packageUpdates, peer)

\* C12 as stated: a migration in the window of its package whose required
\* peer is installed outside the range and is not planned is emitted, with
\* and without excludeAppliedMigrations.
C12_UnmetPeerEmitted ==
    Done => \A p \in Pkgs : \A i \in 1..Len(cfg.docs[p].generators) :
               InWindowPeerOutOfRange(p, cfg.docs[p].generators[i])
                  => Emitted(p, cfg.docs[p].generators[i])

\* C12, amended: such a migration is not emitted, with or without
\* excludeAppliedMigrations.
C12_UnmetPeerNotEmitted ==
    Done => \A p \in Pkgs : \A i \in 1..Len(cfg.docs[p].generators) :
               InWindowPeerOutOfRange(p, cfg.docs[p].generators[i])
                  => ~Emitted(p, cfg.docs[p].generators[i])

\* a run with excludeAppliedMigrations is over that had such a migration to
\* judge, and returned other migrations
C12_Witness ==
    /\ Done
    /\ cfg.opts.excludeAppliedMigrations
    /\ migrations # <<>>
    /\ \E p \in Pkgs : \E i \in 1..Len(cfg.docs[p].generators) :
          InWindowPeerOutOfRange(p, cfg.docs[p].generators[i])

\* the requirements are not empty and one of them names a package that is
\* not installed, or is installed outside its range: on disk, --from aside
SkippedBefore(requires) ==
    \E i \in 1..Len(requires) :
        \/ ~Truthy(installed[requires[i].name])
        \/ ~satisfies(installed[requires[i].name], requires[i].range)

InManifest(p) ==
    \/ Truthy(Lookup(packageJson.dependencies, p))
    \/ Truthy(Lookup(packageJson.devDependencies, p))

\* the version the target package's document resolves to
ResolvedTarget ==
    resolvePackageVersionUsingRegistry(cfg.targetPackage, cfg.targetVersion)

\* child c is listed with "*" in the group of the target package, is
\* installed and a direct dependency, and is asked for at no other version
\* by --to; the target package is installed below the target version
WildcardChild(c) ==
    /\ Truthy(InstalledNow(cfg.targetPackage))
    /\ gt(ResolvedTarget, InstalledNow(cfg.targetPackage))
    /\ \E i \in 1..Len(cfg.docs[cfg.targetPackage].packageGroup) :
          cfg.docs[cfg.targetPackage].packageGroup[i] = GroupItem(c, Tag("*"))
    /\ Truthy(installed[c])
    /\ InManifest(c)
    /\ ~Truthy(Lookup(cfg.opts.to, c))

NamedAt(c, v) ==
    \E p \in Pkgs : \E i \in 1..Len(cfg.docs[p].packageJsonUpdates) :
       \E k \in 1..Len(cfg.docs[p].packageJsonUpdates[i].packages) :
          LET e == cfg.docs[p].packageJsonUpdates[i].packages[k]
          IN e.name = c /\ e.version = v

C15_NotInstalledShortcut ==
    \A v \in Events("visit") :
       ~Truthy(v.installed) =>
          /\ v.returned = Settled(<<>>)
          /\ v.fetching = {} /\ v.calls = {}
          /\ v.collected /\ v.others
          /\ Truthy(v.planAfter.version)
          /\ (~Truthy(v.planBefore) \/ gt(v.target.version, v.planBefore))
                => v.planAfter = PackageUpdate(v.name, v.target.version,
                                               v.target.addToPackageJson)
          /\ (Truthy(v.planBefore) /\ ~gt(v.target.version, v.planBefore))
                => v.planAfter.version = v.planBefore

\* a package that is not installed, whose document names packages to
\* update, has been visited and planned, and the run is over
C15_Witness ==
    /\ Done
    /\ \E v \in Events("visit") :
          /\ ~Truthy(v.installed)
          /\ cfg.docs[v.name].packageJsonUpdates # <<>>
          /\ Planned(v.name) = v.target.version
          /\ \A k \in DOMAIN fetches : k[1] # v.name

\* C16: the part of a visit that follows the fetch returns the empty list
\* and changes nothing when the version the document resolved to is at or
\* below collectedVersions of the package; otherwise it sets
\* collectedVersions of the package to that version, which is then higher
\* than what was there.
C16_FixedPoint ==
    \A e \in Events("fetched") :
       IF Truthy(e.collectedBefore) /\ SemverLte(e.resolved, e.collectedBefore)
       THEN e.returned = Settled(<<>>) /\ e.same
       ELSE /\ e.collectedAfter = e.resolved
            /\ Truthy(e.collectedBefore) => SemverGt(e.collectedAfter, e.collectedBefore)

\* a package was visited at the very version collected for it and, in the
\* same run, at a version above the one collected
C16_Witness ==
    /\ \E e \in Events("fetched") : e.collectedBefore = e.resolved
    /\ \E e \in Events("fetched") :
          Truthy(e.collectedBefore) /\ SemverGt(e.resolved, e.collectedBefore)

(***************************************************************************)
(* Properties of --to.                                                     *)
(***************************************************************************)
\* the version --to asks for, as the registry resolves it
ResolvedTo(p) == resolvePackageVersionUsingRegistry(p, cfg.opts.to[p])

\* C19: every package named by --to that is in the returned plan is there
\* at the version resolved from --to, installed or not.
C19_PlannedAtTo ==
    Done => \A p \in Pkgs :
               (Truthy(cfg.opts.to[p]) /\ Has(packageUpdates, p))
                  => Planned(p) = ResolvedTo(p)

\* the same, of the packages that are installed
C19_PlannedAtToWhenInstalled ==
    Done => \A p \in Pkgs :
               (Truthy(cfg.opts.to[p]) /\ Has(packageUpdates, p)
                  /\ Truthy(InstalledNow(p)))
                  => Planned(p) = ResolvedTo(p)

(***************************************************************************)
(* Properties of filterPackageJsonUpdates.                                 *)
(***************************************************************************)
Kept == (CHOOSE e \in log : e.ev = "filter").kept

\* the one child entry of the candidate is retained, by the three
\* conditions on a child
Retained(cu) ==
    /\ cu.ifPackageInstalled = "" \/ Truthy(installed[cu.ifPackageInstalled])
    /\ \/ cu.alwaysAddToPackageJson
       \/ cu.addToPackageJson # "false"
       \/ InManifest(cu.name)
    /\ \/ ~Truthy(collectedVersions[cu.name])
       \/ gt(cu.version, collectedVersions[cu.name])

\* C17: a candidate update of pkg is kept only if installed(pkg) <
\* u.version <= targetVersion and it has packages; one at the target
\* version (above the installed one, with a child that is retained) is
\* kept, one at the installed version is not.
C17_UpdateWindow ==
    phase = "filtered" =>
       LET u == cfg.candidate
       IN /\ Kept # <<>> => /\ u.hasPackages
                            /\ gt(u.version, installed["root"])
                            /\ lte(u.version, cfg.targetVersion)
          /\ (/\ u.version = cfg.targetVersion /\ u.hasPackages
              /\ gt(u.version, installed["root"]) /\ Retained(u.packages[1]))
                => Kept # <<>>
          /\ u.version = installed["root"] => Kept = <<>>
          /\ ~u.hasPackages => Kept = <<>>

\* a candidate at the target version has been kept
C17_Witness ==
    /\ phase = "filtered"
    /\ cfg.candidate.version = cfg.targetVersion
    /\ Kept # <<>>

\* C18: the child entry of an admitted update is retained exactly when its
\* guard is absent or installed, it is flagged for addition or in the
\* manifest, and its version is above the collected one, if there is one;
\* it is passed on with addToPackageJson "dependencies" when
\* alwaysAddToPackageJson is set, else with its own addToPackageJson.
C18_ChildRetained ==
    (phase = "filtered" /\ isCandidate(St, cfg.candidate, "root", cfg.targetVersion)) =>
       LET cu == cfg.candidate.packages[1]
       IN IF Retained(cu)
          THEN /\ Len(Kept) = 1
               /\ Kept[1].packages =
                     <<PackageUpdate(cu.name, cu.version,
                                     IF cu.alwaysAddToPackageJson THEN "dependencies"
                                     ELSE cu.addToPackageJson)>>
          ELSE Kept = <<>>

\* a child that is not in the manifest was retained because it is flagged,
\* though its guard names a package
C18_Witness ==
    /\ phase = "filtered"
    /\ Kept # <<>>
    /\ ~InManifest("libA")
    /\ cfg.candidate.packages[1].ifPackageInstalled # ""
    /\ Truthy(collectedVersions["libA"])

(***************************************************************************)
(* Properties of the order of the migrations.                              *)
(***************************************************************************)
KeyIndex(p) == CHOOSE i \in 1..Len(packageUpdates) : packageUpdates[i].name = p
GeneratorIndex(p, name) ==
    CHOOSE i \in 1..Len(cfg.docs[p].generators) : cfg.docs[p].generators[i].name = name

\* C20: in the list migrate returns the migrations of a package stand
\* together, the packages follow the key order of packageUpdates and the
\* migrations of one package the order of its generators map, in whatever
\* order the fetches of createMigrateJson complete.
C20_MigrationsOrder ==
    Done => \A i, j \in 1..Len(migrations) :
               i < j =>
                  LET a == migrations[i]
                      b == migrations[j]
                  IN IF a.package = b.package
                     THEN GeneratorIndex(a.package, a.name) < GeneratorIndex(b.package, b.name)
                     ELSE KeyIndex(a.package) < KeyIndex(b.package)

\* two packages with migrations in the list whose fetches completed against
\* the key order, one of them with two migrations
C20_Witness ==
    /\ Done
    /\ \E e1, e2 \in Events("completed") :
          /\ KeyIndex(e1.package) < KeyIndex(e2.package)
          /\ e1.nth > e2.nth
          /\ \E i, j \in 1..Len(migrations) :
                migrations[i].package = e1.package /\ migrations[j].package = e2.package
    /\ \E i, j \in 1..Len(migrations) :
          i # j /\ migrations[i].package = migrations[j].package

(***************************************************************************)
(* Properties of the fetcher's failures.                                   *)
(***************************************************************************)
Settled_chain(c) == c.stage \in {"fulfilled", "rejected"}

\* C21: a chain whose version resolution, registry view, download or
\* joined promise failed goes on to the install of the name and version it
\* was asked for, and is fulfilled with what the install gives; a chain is
\* rejected only by the failure of its install.
C21_FallbackToInstall ==
    \A id \in DOMAIN chains :
       LET c == chains[id]
       IN /\ c.thrown # NoErr =>
                /\ c.stage \in {"installing", "fulfilled", "rejected"}
                /\ Invocations_of("install", c.key) >= 1
                /\ c.stage = "fulfilled" => c.via = "install"
          /\ c.stage = "rejected" => c.error = Err("install", c.key)

\* a call for a tag whose registry retrieval failed has received the
\* document of the install
C21_Witness ==
    \E i \in 1..Len(fcalls) :
       LET c == chains[fcalls[i].promise]
       IN /\ c.key[2] = Tag("latest")
          /\ c.thrown.kind \in {"view", "extract"}
          /\ c.stage = "fulfilled"
          /\ c.via = "install"

\* C22: a chain whose download of the migrations file failed is rejected
\* with the error that names the package and the version.
C22_ExtractionFailureFails ==
    \A id \in DOMAIN chains :
       LET c == chains[id]
       IN (c.thrown.kind = "extract" /\ Settled_chain(c)) =>
             /\ c.stage = "rejected"
             /\ c.error = Err("extract", <<c.key[1], c.resolvedVersion>>)

\* C22, as the fetcher behaves: the error of the download names the package
\* and the resolved version, is caught by the chain, which goes on to the
\* install; no chain is ever rejected with it.
C22_ExtractionFailureFallsBack ==
    \A id \in DOMAIN chains :
       LET c == chains[id]
       IN /\ c.error.kind # "extract"
          /\ c.thrown.kind = "extract" =>
                /\ c.thrown.key = <<c.key[1], c.resolvedVersion>>
                /\ Invocations_of("pack", c.thrown.key) >= 1
                /\ c.stage \in {"installing", "fulfilled", "rejected"}
                /\ c.stage = "fulfilled" => c.via = "install"
                /\ c.stage = "rejected" => c.error.kind = "install"

\* a chain whose download failed has been fulfilled by the install
C22_Witness ==
    \E id \in DOMAIN chains :
       /\ chains[id].thrown.kind = "extract"
       /\ chains[id].stage = "fulfilled"
       /\ chains[id].via = "install"

(***************************************************************************)
(* Properties of a failing generate run.                                   *)
(***************************************************************************)
Failure == CHOOSE e \in log : e.ev = "failure"
HasFailed == phase \in {"failed", "aborted"} /\ \E e \in log : e.ev = "failure"

Before == CHOOSE e \in log : e.ev = "before"
Ended == phase \in {"generated", "aborted"}

\* the entry of package p in a section of the manifest, as the plan is to
\* leave it
ExpectedEntry(section, p) ==
    LET old == Before.packageJson
        other == IF section = "dependencies" THEN "devDependencies" ELSE "dependencies"
    IN IF ~Has(packageUpdates, p) THEN old[section][p]
       ELSE LET u == Get(packageUpdates, p)
            IN IF Truthy(old.devDependencies[p])
               THEN (IF section = "devDependencies" THEN u.version ELSE old[section][p])
               ELSE IF Truthy(old.dependencies[p])
               THEN (IF section = "dependencies" THEN u.version ELSE old[section][p])
               ELSE IF u.addToPackageJson = section THEN u.version
               ELSE old[section][p]

\* C24: for each plan entry the manifest update sets the devDependencies
\* entry of a package that is there, else its dependencies entry if it is
\* there, else inserts it under the section addToPackageJson names; with
\* addToPackageJson false an absent package stays absent, and no entry of
\* a package outside the plan changes.
C24_ManifestUpdate ==
    Ended => \A section \in {"dependencies", "devDependencies"}, p \in GPkgs :
                packageJson[section][p] = ExpectedEntry(section, p)

\* a package listed in both sections was updated, and one that was absent
\* was inserted under the section its entry names
C24_Witness ==
    /\ Ended
    /\ Has(packageUpdates, "libA")
    /\ Truthy(Before.packageJson.dependencies["libA"])
    /\ Truthy(Before.packageJson.devDependencies["libA"])
    /\ packageJson.devDependencies["libA"] = Full(2)
    /\ Has(packageUpdates, "@nrwl/workspace")

\* C25: when the plan has @nrwl/workspace at 15.7.0-beta.0 or above and
\* the installed @nrwl/workspace is below it, migrations.json is written
\* and its list begins with the split-configuration entry, whatever the
\* planner returned.
C25_SplitConfigurationFirst ==
    (/\ Ended
     /\ Has(packageUpdates, "@nrwl/workspace")
     /\ SemverLt(installed["@nrwl/workspace"], SplitConfigurationVersion)
     /\ SemverGte(Planned("@nrwl/workspace"), SplitConfigurationVersion))
       => /\ files.migrationsJson.exists
          /\ Head(files.migrationsJson.migrations) = SplitConfigurationMigration

\* the same when the planner returned migrations and the manifest gives the
\* installed version as the version of nx
C25_SplitConfigurationFirstOfSome ==
    (/\ Ended
     /\ Has(packageUpdates, "@nrwl/workspace")
     /\ SemverLt(installed["@nrwl/workspace"], SplitConfigurationVersion)
     /\ SemverGte(Planned("@nrwl/workspace"), SplitConfigurationVersion)
     /\ migrations # <<>>
     /\ readNxVersion(Before.packageJson) = installed["@nrwl/workspace"])
       => /\ files.migrationsJson.exists
          /\ Head(files.migrationsJson.migrations) = SplitConfigurationMigration

(***************************************************************************)
(* Properties of the runner.                                               *)
(***************************************************************************)
Positions(kind) == {a \in 1..Len(runner.trace) : runner.trace[a].ev = kind}
Entered == runner.pc # "called" /\ runner.opts.migrationsExists

\* package.json after the writes the trace records, from the first on
RECURSIVE Replay(_, _)
Replay(json, a) ==
    IF a > Len(runner.trace) THEN json
    ELSE Replay(IF runner.trace[a].ev \in {"end", "failed"}
                THEN Written(json, runner.trace[a].effect) ELSE json, a + 1)

\* C26: the migrations are started in list order, each once at most and
\* none before the one before it has ended; when one throws nothing is
\* started or installed after it, what was written stays written, and the
\* runner throws that migration's error.
C26_OneAtATimeStopOnThrow ==
    LET t == runner.trace
    IN /\ \A a \in Positions("start") :
             /\ t[a].i = Cardinality({b \in Positions("start") : b <= a})
             /\ t[a].i > 1 => \E b \in Positions("end") : b < a /\ t[b].i = t[a].i - 1
       /\ \A a \in Positions("failed") :
             /\ a = Len(t)
             /\ runner.pc = "thrown"
             /\ runner.error = Err("migration", t[a].i)
       /\ runner.packageJson = Replay(RunnerManifest(Full(1), FALSE), 1)

\* the second migration threw after the first had changed the
\* dependencies: no install, and the change is still there
C26_Witness ==
    /\ runner.pc = "thrown"
    /\ runner.error = Err("migration", 2)
    /\ runner.packageJson.dependencies.libA = Full(2)
    /\ Len(runner.list) = MaxMigrations

\* C27: executeMigrations runs the install once at most, as its last step
\* after the loop, and it has run it when it returns exactly if the
\* dependencies and devDependencies of package.json are no longer those of
\* before the first migration.
C27_InstallOnceIffDepsChanged ==
    LET t == runner.trace
        after == {a \in Positions("install") : t[a].when = "after"}
        old == RunnerManifest(Full(1), FALSE)
    IN /\ Cardinality(after) <= 1
       /\ \A a \in after : a = Len(t) /\ runner.pc = "returned"
       /\ (Entered /\ runner.pc = "returned") =>
             (after # {} <=>
                \/ runner.packageJson.dependencies # old.dependencies
                \/ runner.packageJson.devDependencies # old.devDependencies)

\* a run of all migrations in which one changed the dependencies and one
\* the scripts has installed; one in which the change was undone has not
C27_Witness ==
    /\ runner.pc = "returned"
    /\ Len(runner.list) = MaxMigrations
    /\ \E a \in Positions("end") : runner.trace[a].effect = "scripts"
    /\ \E a \in Positions("end") : runner.trace[a].effect = "dependency"
    /\ runner.trace[Len(runner.trace)] = [ev |-> "install", when |-> "after"]

\* C28: with commits requested one commit is attempted after each
\* migration that reported changes and none after one that did not, and
\* none without; a commit that fails does not end the loop; the list
\* returned is that of the migrations that reported no changes, in order.
C28_CommitPerChange ==
    LET t == runner.trace
        quiet == {t[a].i : a \in {b \in Positions("end") : ~t[b].changes}}
    IN /\ \A a \in Positions("end") :
             IF runner.opts.shouldCreateCommits /\ t[a].changes
             THEN /\ a < Len(t)
                  /\ t[a + 1].ev = "commit"
                  /\ t[a + 1].i = t[a].i
                  /\ Cardinality({b \in Positions("commit") : t[b].i = t[a].i}) = 1
             ELSE {b \in Positions("commit") : t[b].i = t[a].i} = {}
       /\ \A a \in Positions("commit") :
             /\ runner.i > t[a].i
             /\ runner.pc = "thrown" => runner.error.kind = "migration"
       /\ (Entered /\ runner.pc \in {"returned", "thrown"} /\ Positions("failed") = {}) =>
             /\ runner.pc = "returned"
             /\ Cardinality(Positions("start")) = Len(runner.list)
             /\ runner.result =
                   SelectSeqIdx(runner.list, quiet, 1)

\* the commit after the first migration failed, and the run went on to the
\* end: the second and third migration are returned
C28_Witness ==
    /\ runner.pc = "returned"
    /\ runner.opts.shouldCreateCommits
    /\ \E a \in Positions("commit") : runner.trace[a].i = 1 /\ runner.trace[a].result = "error"
    /\ runner.result = <<MigrationEntry(2), MigrationEntry(3)>>

\* C29: with the migrations file absent, a run with ifExists does nothing:
\* no install, no migration, no commit, no error; a run without ifExists
\* throws and runs no migration.
C29_AbsentFile ==
    (runner # <<>> /\ runner.pc # "called" /\ ~runner.opts.migrationsExists) =>
       IF runner.opts.ifExists
       THEN runner.pc = "returned" /\ runner.trace = <<>> /\ runner.error = NoErr
       ELSE /\ runner.pc = "thrown"
            /\ runner.error = Err("no file", 0)
            /\ Positions("start") = {}

\* the same, of the migrations and commits only
C29_AbsentFileNoMigration ==
    (runner # <<>> /\ runner.pc # "called" /\ ~runner.opts.migrationsExists) =>
       /\ Positions("start") = {} /\ Positions("commit") = {}
       /\ Positions("install") # {} <=> ~runner.opts.skipInstall
       /\ IF runner.opts.ifExists
          THEN runner.pc = "returned" /\ runner.error = NoErr
          ELSE runner.pc = "thrown" /\ runner.error = Err("no file", 0)

(***************************************************************************)
(* Properties of parseTargetPackageAndVersion.                             *)
(***************************************************************************)
ParseResult == (CHOOSE e \in log : e.ev = "parsed").result

\* the argument is a version literal alone: a full version, or one to
\* three numbers
VersionAlone(args) ==
    /\ args.name = "" /\ ~args.at /\ args.version.tag = ""
    /\ \/ (args.version.min >= 0 /\ args.version.pat >= 0)
       \/ (args.version.pre = 0 /\ (args.version.pat >= 0 => args.version.min >= 0))

\* C30: a version literal alone gives @nrwl/workspace when its normalized
\* version is below 14.0.0-beta.0 and nx otherwise; latest and next alone
\* give nx and the tag itself; a name alone, scoped or not, gives that
\* package at latest.
C30_TargetOfArgument ==
    phase = "parsed" =>
       LET args == cfg.args
           r == ParseResult
       IN /\ VersionAlone(args) =>
                /\ ~r.threw
                /\ r.targetVersion = normalizeVersion(args.version)
                /\ r.targetPackage =
                      IF SemverCompare(normalizeVersion(args.version), Ver(14, 0, 0, 1)) = -1
                      THEN "@nrwl/workspace" ELSE "nx"
          /\ (args.name = "" /\ ~args.at /\ args.version.tag \in {"latest", "next"}) =>
                r = Parsed("nx", args.version)
          /\ (args.name # "" /\ ~args.at) => r = Parsed(args.name, Tag("latest"))

\* "14.0.0-beta.0" alone has been parsed to nx
C30_Witness ==
    /\ phase = "parsed"
    /\ cfg.args = Arg("", FALSE, Ver(14, 0, 0, 1))
    /\ ParseResult = Parsed("nx", Ver(14, 0, 0, 1))

(***************************************************************************)
(* Properties of the installed-version resolver.                           *)
(***************************************************************************)
HasOverride(c, p) == p \in DOMAIN c.overrides
Found(p) == installed[p] # NoVersion

\* C31: the resolver returns the override of the package when there is
\* one, else the version on disk, else null; for nx that cannot be resolved
\* it returns what @nrwl/workspace resolves to under the same overrides.
C31_OverrideThenDiskThenAlias ==
    resolver # <<>> =>
      \A i \in 1..Len(resolver.calls) :
         LET c == resolver.calls[i]
             p == c.packageName
             ws == "@nrwl/workspace"
         IN /\ HasOverride(c, p) => c.result = c.overrides[p]
            /\ (~HasOverride(c, p) /\ Found(p)) => c.result = installed[p]
            /\ (~HasOverride(c, p) /\ ~Found(p) /\ p # "nx") => c.result = NoVersion
            /\ (~HasOverride(c, p) /\ ~Found(p) /\ p = "nx") =>
                  c.result = IF HasOverride(c, ws) THEN c.overrides[ws]
                             ELSE installed[ws]

\* nx is neither installed nor overridden and the resolver answered with
\* the override of @nrwl/workspace, after @nrwl/workspace itself was read
\* from disk into the cache
C31_Witness ==
    /\ resolver # <<>>
    /\ Len(resolver.calls) = 2
    /\ installed["nx"] = NoVersion
    /\ installed["@nrwl/workspace"] = Full(1)
    /\ resolver.calls[1].packageName = "@nrwl/workspace"
    /\ resolver.calls[1].result = Full(1)
    /\ resolver.calls[2].packageName = "nx"
    /\ ~HasOverride(resolver.calls[2], "nx")
    /\ resolver.calls[2].result = Full(3)

(***************************************************************************)
(* Properties of the updates of one deferred item.                         *)
(***************************************************************************)
\* e and d are about the same deferred item of the same call
SameItem(e, d) == e.task = d.task /\ e.idx = d.idx

\* the updates of the item of decision d admitted before d that bring q
AdmittedBefore(d, q) ==
    {a \in Events("admit") :
        /\ SameItem(a, d) /\ a.uidx < d.uidx
        /\ \E k \in 1..Len(a.packages) : a.packages[k].name = q}

\* the version of q the admissions before d have left: that of the last one
AdmittedVersion(d, q) ==
    LET last == CHOOSE a \in AdmittedBefore(d, q) :
                    \A b \in AdmittedBefore(d, q) : b.uidx <= a.uidx
        k == CHOOSE k \in 1..Len(last.packages) :
                    /\ last.packages[k].name = q
                    /\ \A j \in (k + 1)..Len(last.packages) : last.packages[j].name # q
    IN last.packages[k].version

\* requirement i of decision d is satisfied by what is installed or planned
MetOutside(d, i) ==
    \E v \in {d.seen[i].installed, d.seen[i].planned} :
        Truthy(v) /\ satisfies(v, d.requires[i].range)

\* requirement i of decision d is satisfied by an earlier admission
MetByEarlier(d, i) ==
    /\ AdmittedBefore(d, d.requires[i].name) # {}
    /\ satisfies(cleanSemver(AdmittedVersion(d, d.requires[i].name)), d.requires[i].range)

\* C32: the updates of a deferred item are judged in document order, an
\* update only after every update before it was judged and settled; an
\* update's requirement counts as met exactly when what is installed, what
\* is planned or what the updates admitted before it in the same item
\* brought satisfies it, so never because of an update after it.
C32_CumulativeInDocumentOrder ==
    \A d \in Events("decision") :
       /\ \A u \in 1..(d.uidx - 1) :
             /\ \E e \in Events("decision") : SameItem(e, d) /\ e.uidx = u
             /\ \A e \in Events("decision") :
                   (SameItem(e, d) /\ e.uidx = u /\ e.met) =>
                      \E o \in Events("admit") \cup Events("decline") :
                          SameItem(o, d) /\ o.uidx = u
       /\ d.met <=> \A i \in 1..Len(d.requires) : MetOutside(d, i) \/ MetByEarlier(d, i)

\* a run is over in which an update was rejected although an update after
\* it, admitted, brought what it required, and the same update further down
\* the item was admitted on the strength of that admission
C32_Witness ==
    /\ Done
    /\ \E early, late \in Events("decision"), a \in Events("admit") :
          /\ SameItem(early, late) /\ SameItem(a, late)
          /\ early.uidx < a.uidx /\ a.uidx < late.uidx
          /\ early.requires = late.requires /\ early.packages = late.packages
          /\ ~early.met
          /\ late.met
          /\ \E i \in 1..Len(late.requires) : ~MetOutside(late, i) /\ MetByEarlier(late, i)
          /\ \E o \in Events("admit") : SameItem(o, late) /\ o.uidx = late.uidx
          /\ Has(packageUpdates, late.packages[1].name)

(***************************************************************************)
(* Properties of the confirmation prompt.                                  *)
(***************************************************************************)
\* e and d are about the same update of the same deferred item
SameUpdate(e, d) == SameItem(e, d) /\ e.uidx = d.uidx

\* a prompt is shown only in interactive mode, only for an update with an
\* x-prompt and only after its requires was found met; a declined update
\* was asked about and is not admitted; without interactive mode no prompt
\* is shown and an update whose requires is met is admitted
PromptRules ==
    /\ \A p \in Events("prompt") :
          /\ cfg.opts.interactive
          /\ p.prompt
          /\ \E d \in Events("decision") : SameUpdate(d, p) /\ d.met
    /\ \A c \in Events("decline") :
          /\ \E p \in Events("prompt") : SameUpdate(p, c)
          /\ ~\E a \in Events("admit") : SameUpdate(a, c)
    /\ ~cfg.opts.interactive =>
          /\ Events("prompt") = {} /\ Events("decline") = {}
          /\ \A d \in Events("decision") :
                d.met => \E a \in Events("admit") : SameUpdate(a, d)

\* C33 as stated: the prompt rules hold, and the packages of a declined
\* update are not recursed into and are not in the plan.
C33_DeclinedPackagesStayOut ==
    /\ PromptRules
    /\ \A c \in Events("decline") : \A k \in 1..Len(c.packages) :
          /\ ~\E r \in Events("recurse") :
                 SameItem(r, c) /\ r.entry.name = c.packages[k].name
          /\ ~Has(packageUpdates, c.packages[k].name)

\* C33, amended: the prompt rules hold; nothing of an item is recursed into
\* but what an admitted update of the item brings, and a package of a
\* declined update that is in the plan was recursed into or applied from
\* another update.
C33_DeclinedUpdateAddsNothing ==
    /\ PromptRules
    /\ \A r \in Events("recurse") :
          \E a \in Events("admit") :
             SameItem(a, r) /\ \E k \in 1..Len(a.packages) : a.packages[k] = r.entry
    /\ \A c \in Events("decline") : \A k \in 1..Len(c.packages) :
          LET q == c.packages[k].name
          IN (Has(packageUpdates, q) /\ q # cfg.targetPackage) =>
                \E e \in Events("recurse") \cup Events("apply") : e.entry.name = q

\* an interactive run is over in which an update with an x-prompt was
\* rejected on its requires without a prompt, and another was asked about
\* and declined, and its package is in the plan through a later update of
\* the item
C33_Witness ==
    /\ Done
    /\ cfg.opts.interactive
    /\ \E d \in Events("decision") :
          /\ d.prompt /\ ~d.met
          /\ ~\E p \in Events("prompt") : SameUpdate(p, d)
    /\ \E c \in Events("decline") :
          /\ \E p \in Events("prompt") : SameUpdate(p, c)
          /\ \E k \in 1..Len(c.packages) :
                /\ Has(packageUpdates, c.packages[k].name)
                /\ \E a \in Events("admit") :
                      /\ SameItem(a, c) /\ a.uidx > c.uidx
                      /\ \E j \in 1..Len(a.packages) :
                            a.packages[j].name = c.packages[k].name

(***************************************************************************)
(* Properties of the order of the deferred items.                          *)
(***************************************************************************)
\* the position of package p in the package group that package q declares
DeclaredAt(q, p) ==
    LET group == cfg.docs[q].packageGroup
    IN IF \E i \in 1..Len(group) : group[i].package = p
       THEN CHOOSE i \in 1..Len(group) :
               group[i].package = p /\ \A j \in 1..(i - 1) : group[j].package # p
       ELSE 0

\* the recursion into what item idx of task id admitted is still running
Recursing(id, idx) ==
    /\ id \in DOMAIN tasks
    /\ tasks[id].kind = "build" /\ tasks[id].st = "children" /\ tasks[id].idx = idx

\* C34: the deferred items one call of buildPackageJsonUpdates works
\* through stand in the order in which the package group of the package it
\* was called for declares their packages, and no update of an item is
\* judged while the recursion of an item before it is still running.
C34_ItemsInGroupOrder ==
    \A d, e \in Events("decision") :
       (d.task = e.task /\ d.idx < e.idx) =>
          /\ DeclaredAt(d.caller, d.package) <= DeclaredAt(e.caller, e.package)
          /\ ~Recursing(d.task, d.idx)

\* a run is over in which root listed libA before libB and declared libB
\* before libA: the item of libB was worked through first, and the item of
\* libA was then admitted on the version of libA that the recursion of the
\* first item had planned
C34_Witness ==
    /\ Done
    /\ DeclaredAt("root", "libB") = 1 /\ DeclaredAt("root", "libA") = 2
    /\ \E d, e \in Events("decision") :
          /\ d.task = e.task /\ d.caller = "root"
          /\ d.idx = 1 /\ d.package = "libB" /\ d.met
          /\ e.idx = 2 /\ e.package = "libA" /\ e.met
          /\ e.seen[1].installed = Full(1)
          /\ e.seen[1].planned = Full(3)

(***************************************************************************)
(* Properties of the overrides of the installed versions.                  *)
(***************************************************************************)
\* the children that the package group of package q declares with "*"
StarChildren(q) ==
    {cfg.docs[q].packageGroup[i].package :
        i \in {j \in 1..Len(cfg.docs[q].packageGroup) :
                  cfg.docs[q].packageGroup[j].version = Tag("*")}}

\* the visits that got as far as expanding the package group
Expansions == {e \in Events("fetched") : e.collectedAfter # e.collectedBefore}

\* C35: once the package group of a package with an override has been
\* expanded, a child it declares with "*" is seen installed at the override
\* it had before the expansion, if it had one, and at the parent's override
\* otherwise; during a planning run no override is changed or removed.
C35_OverridePropagatedToStarChildren ==
    /\ [](\A e \in Expansions : \A c \in StarChildren(e.name) :
             Truthy(e.overridesBefore[e.name]) =>
                InstalledNow(c) = IF Truthy(e.overridesBefore[c])
                                  THEN e.overridesBefore[c]
                                  ELSE e.overridesBefore[e.name])
    /\ [][run' = run =>
            \A p \in Pkgs :
               Truthy(installedPkgVersionOverrides[p]) =>
                  installedPkgVersionOverrides'[p] = installedPkgVersionOverrides[p]]_vars

\* a run is over in which libA, on disk at 1.0.0, is seen installed at the
\* override of root, and libB, declared with "*" by libA, has kept its own
C35_Witness ==
    /\ Done
    /\ cfg.opts.from["root"] = Ver(1, 5, 0, 0)
    /\ cfg.opts.from["libA"] = NoVersion
    /\ cfg.opts.from["libB"] = Ver(1, 2, 0, 0)
    /\ \E e \in Expansions : e.name = "libA" /\ Truthy(e.overridesBefore["libA"])
    /\ installed["libA"] = Full(1)
    /\ InstalledNow("libA") = Ver(1, 5, 0, 0)
    /\ InstalledNow("libB") = Ver(1, 2, 0, 0)

(***************************************************************************)
(* Properties of the reuse of a document under its resolved version.       *)
(***************************************************************************)
\* chain id has gone down the registry path for this package and version
ViaRegistryPath(id, key) ==
    /\ chains[id].key[1] = key[1]
    /\ chains[id].resolvedVersion = key[2]
    /\ chains[id].joined = 0

\* the second .then of chain id runs in this step
SecondThen(id) ==
    /\ id \in DOMAIN chains
    /\ chains[id].stage = "resolving"
    /\ chains'[id].stage \in {"joined", "viewing"}

\* a call of the fetcher is made in this step
Called == Len(fcalls') = Len(fcalls) + 1

\* C36: when the version a fetch was called with resolves to another one
\* and migrationsCache holds a promise under the resolved version, the
\* fetch returns that promise and no registry request is started, and it
\* ends with what that promise ends with; and a call for a package and a
\* version that an earlier fetch went down the registry path for is served
\* a cached promise, and starts no chain, resolution or request.
C36_ReuseUnderResolvedVersion ==
    /\ [][\A id \in DOMAIN chains :
            SecondThen(id) =>
               LET rkey == <<chains[id].key[1], chains'[id].resolvedVersion>>
               IN (rkey[2] # chains[id].key[2] /\ rkey \in DOMAIN migrationsCache) =>
                     /\ chains'[id].stage = "joined"
                     /\ chains'[id].joined = migrationsCache[rkey]
                     /\ invoked' = invoked]_vars
    /\ [](\A id \in DOMAIN chains :
            chains[id].joined # 0 =>
               /\ chains[id].stage # "viewing" /\ chains[id].stage # "packing"
               /\ (chains[id].stage = "fulfilled" /\ chains[id].thrown = NoErr) =>
                     /\ chains[chains[id].joined].stage = "fulfilled"
                     /\ chains[id].via = chains[chains[id].joined].via)
    /\ [][Called =>
            LET call == fcalls'[Len(fcalls')]
            IN (\E id \in DOMAIN chains : ViaRegistryPath(id, call.key)) =>
                  /\ call.hit
                  /\ \E id \in DOMAIN chains :
                        /\ call.promise = id
                        /\ \/ chains[id].key = call.key
                           \/ ViaRegistryPath(id, call.key)
                  /\ chains' = chains
                  /\ resolvedVersionCache' = resolvedVersionCache
                  /\ invoked' = invoked]_vars

\* a fetch of latest found the promise of a fetch of the version latest
\* resolves to, still in flight, returned it and was fulfilled with it: the
\* registry was asked for the version once and no tarball was packed twice
C36_Witness ==
    \E id \in DOMAIN chains :
       /\ chains[id].key[2] = Tag("latest")
       /\ chains[id].joined # 0
       /\ chains[id].stage = "fulfilled"
       /\ chains[id].thrown = NoErr
       /\ chains[chains[id].joined].key = <<chains[id].key[1], Full(MaxTarget)>>
       /\ chains[chains[id].joined].via = "registry"
       /\ Invocations_of("view", chains[chains[id].joined].key) = 1
       /\ Invocations_of("pack", chains[chains[id].joined].key) = 1

\* a call for the version that an earlier fetch of latest resolved to and
\* went to the registry for was served the promise of that fetch
C36_ServedAfterResolution ==
    \E j \in DOMAIN fcalls :
       /\ fcalls[j].hit
       /\ fcalls[j].key[2] = Full(MaxTarget)
       /\ chains[fcalls[j].promise].key = <<fcalls[j].key[1], Tag("latest")>>
       /\ ViaRegistryPath(fcalls[j].promise, fcalls[j].key)

(***************************************************************************)
(* Every fetch settles.                                                    *)
(***************************************************************************)
ChainSettled(id) == chains[id].stage \in {"fulfilled", "rejected"}

\* the version of the registry a version text stands for is a fixed point
\* of the resolution
Idempotent ==
    \A n \in FNames, v \in FVersions :
       LET r == resolvePackageVersionUsingRegistry(n, v)
       IN resolvePackageVersionUsingRegistry(n, r) = r

\* C38: with every registry and install request answered and a resolution
\* that is idempotent, the promise of every call of the fetcher settles; a
\* chain that returned a cached promise returned one of another chain, which
\* itself waits on no cached promise.
C38_EveryFetchSettles ==
    /\ Idempotent
    /\ \A j \in 1..MaxCalls :
          (j \in DOMAIN fcalls) ~> (j \in DOMAIN fcalls /\ ChainSettled(fcalls[j].promise))
    /\ [](\A id \in DOMAIN chains :
             chains[id].joined # 0 =>
                /\ chains[id].joined # id
                /\ chains[chains[id].joined].joined = 0)

\* MaxCalls concurrent calls, all settled: a fetch of latest that waited on
\* the in-flight fetch of the version latest resolves to, and a call that
\* was handed a promise still pending
C38_Witness ==
    /\ Len(fcalls) = MaxCalls
    /\ \A j \in DOMAIN fcalls : ChainSettled(fcalls[j].promise)
    /\ \E j \in DOMAIN fcalls : fcalls[j].hit /\ fcalls[j].pending
    /\ \E id \in DOMAIN chains :
          /\ chains[id].joined # 0
          /\ chains[id].key[2] # chains[chains[id].joined].key[2]

(***************************************************************************)
(* Termination of migrate().                                               *)
(***************************************************************************)
\* the visits that went past the check of the collected version
Processed == {e \in Events("fetched") : ~e.same}

\* C37: every planning run ends, and a visit gets past the check of the
\* collected version only with a version strictly above the one collected
\* for its package before.
C37_MigrateTerminates ==
    /\ (phase = "planning") ~> (phase # "planning")
    /\ [](\A e \in Processed :
             /\ Truthy(e.collectedAfter)
             /\ Truthy(e.collectedBefore) => SemverGt(e.collectedAfter, e.collectedBefore))

\* a run is over in which root, which declares itself in its package
\* group, was processed at 2.0.0 and again at 3.0.0, and a package was
\* visited once more at a version already collected
C37_Witness ==
    /\ Done
    /\ cfg.docs \in CyclicGroupDocs
    /\ \E e \in Processed :
          e.name = "root" /\ e.collectedBefore = NoVersion /\ e.collectedAfter = Full(2)
    /\ \E e \in Processed :
          e.name = "root" /\ e.collectedBefore = Full(2) /\ e.collectedAfter = Full(3)
    /\ \E e \in Events("fetched") :
          e.same /\ e.collectedBefore = Full(3) /\ e.resolved = Full(3)

====
